---- MODULE Spec2Model ----
(***************************************************************************)
(* A model of tl-scraper's job pool (src/src/join_pool.rs) and of its      *)
(* token handling (src/src/client/authentication.rs,                       *)
(* src/gocardless/src/auth.rs).                                            *)
(***************************************************************************)
EXTENDS Integers, Sequences, FiniteSets, TLC

(***************************************************************************)
(* Bounds of the model.                                                    *)
(***************************************************************************)
\* Jobs ever submitted to one pool.
MaxJobs == 3
\* The largest `concurrency` given to JobPool::new (0 is accepted too).
MaxConcurrency == 2

\* access_token() callers sharing one Authenticator (one call each).
MaxCallers == 2
\* The clock runs over 0..MaxTime.
MaxTime == 2
\* Lifetimes (expires_in, access_expires, refresh_expires) a token endpoint
\* answers with: 0..MaxExpiresIn.
MaxExpiresIn == 1
\* Calls of Authenticator::authenticate.
MaxAuths == 1
\* Runs of AuthArgs::load_token.
MaxGcRuns == 2
\* Largest lifetime in a response of the gocardless token endpoints
MaxGcExpiresIn == 2
\* Records in one file, characters in one record.
MaxRecords == 2
MaxItemLen == 1
\* Calendar months, counted from a January, in which a period may lie.
MaxMonths == 3
\* Largest history_days of a provider.
MaxHistoryDays == 45
\* Most transactions (booked and pending together) in one response.
MaxTx == 2
\* Most requests the consent listener gets.
MaxCallbacks == 3
\* Most requests the code-grant listener gets.
MaxRedirects == 3

JobIds == 1..MaxJobs
\* Actor 0 is the code that called JobPool::new and owns the root JobHandle;
\* actor j >= 1 is the body of job j.
Main == 0
Actors == 0..MaxJobs

VARIABLES
    \* ---- JobPool / JobHandle (join_pool.rs) ----
    concurrency,     \* JobPool.concurrency
    permits,         \* JobPool.semaphore.available_permits()
    has_terminated,  \* JobPool.has_terminated
    rxAlive,         \* the UnboundedReceiver (JobPool.rx) has not been dropped
    queue,           \* jobs sent on the channel and not yet received
    tasks,           \* the JoinSet of run: spawned and not yet reaped
    pcRun,           \* where JobPool::run is
    njPermit,        \* the pending next_job future of the select holds a permit
    stats,           \* PoolStats
    nJobs,           \* jobs created so far: ids 1..nJobs
    status,          \* per job: where its future is
    jobHandle,       \* per job: its future owns a JobHandle clone
    parent,          \* per job: the actor that spawned it
    rootHandle,      \* the JobHandle returned by JobPool::new is not yet dropped
    countPending,    \* actors between tx.send and jobs_submitted += 1 in spawn
    lastSpawn,       \* result of the most recent JobHandle::spawn call
    runErr           \* the job whose error run returned (0: none)

poolVars == <<concurrency, permits, has_terminated, rxAlive, queue, tasks, pcRun,
              njPermit, stats, nJobs, status, jobHandle, parent, rootHandle,
              countPending, lastSpawn, runErr>>

VARIABLES
    \* ---- the clock (Utc::now) ----
    now,
    \* ---- Authenticator (client/authentication.rs) ----
    tokenFile,        \* the file at token_path: <<>> or <<AuthData>>
    cached_auth_data, \* Authenticator.cached_auth_data: <<>> (None) or <<AuthData>>
    lockHolder,       \* the caller holding the cached_auth_data mutex (0: free)
    pcCall,           \* per caller: where its access_token() call is
    at,               \* per caller: the instant sampled after taking the lock
    data,             \* per caller: the local `data` (<<>> before it is read)
    respExpiresIn,    \* per caller: expires_in of the refresh response it got
    ret,              \* per caller: what access_token() returned
    overlapped,       \* pairs of callers whose calls ran concurrently
    nextAccess,       \* the next token string the token endpoint issues
    pcAuth,           \* where the authenticate() call is
    authAt,           \* authenticate: fetched_at
    authData,         \* authenticate: state
    authsStarted      \* authenticate calls so far

authVars == <<tokenFile, cached_auth_data, lockHolder, pcCall, at, data,
              respExpiresIn, ret, overlapped, nextAccess, pcAuth, authAt,
              authData, authsStarted>>

VARIABLES
    \* ---- gocardless auth (gocardless/src/auth.rs) ----
    gcFile,         \* the token file: <<>> or <<Token>>
    gcTorn,         \* the token file exists but holds no complete document
    gcPc,           \* where AuthArgs::load_token is
    gcAuthedAt,     \* AuthArgs::load_token: authed_at
    gcRefreshAt,    \* refresh_token: authed_at
    gcTok,          \* the token in hand: <<>> or <<Token>>
    gcResult,       \* result of the last AuthArgs::load_token
    gcRefreshReqs,  \* POSTs to /api/v2/token/refresh/ so far
    gcNewReqs,      \* POSTs to /api/v2/token/new/ so far
    gcRuns          \* runs of AuthArgs::load_token so far

gcVars == <<gcFile, gcTorn, gcPc, gcAuthedAt, gcRefreshAt, gcTok, gcResult,
            gcRefreshReqs, gcNewReqs, gcRuns>>

VARIABLES
    \* ---- writing a file of the mirror (sync.rs, gocardless/src/sync.rs) ----
    wfPath,    \* the file at `path`: <<>> (no file) or <<bytes>>
    wfTmp,     \* the temporary file: <<>> (none) or <<bytes>>
    wfDir,     \* the parent directory of `path` exists
    wfOld,     \* what `path` held before the call
    wfData,    \* the records to write
    wfIdx,     \* the record the loop is at
    wfBuf,     \* the serialization buffer
    wfPc       \* where the call is

wfVars == <<wfPath, wfTmp, wfDir, wfOld, wfData, wfIdx, wfBuf, wfPc>>

VARIABLES
    \* ---- months(period) (sync.rs) ----
    period,         \* the argument: <<start, end>>
    month_starts,   \* where the iter_days() under month_starts is
    month_ends,     \* where the iter_days() under month_ends is
    emitted,        \* the buckets the iterator has yielded so far
    mPc             \* "iter" while the caller's loop runs, then "done"

mVars == <<period, month_starts, month_ends, emitted, mPc>>

VARIABLES
    \* ---- the date range of the gocardless sync (gocardless/src/sync.rs) ----
    today,          \* Local::now().date_naive()
    history_days,   \* provider_config.history_days()
    start_date,
    end_date,
    rPc

rVars == <<today, history_days, start_date, end_date, rPc>>

VARIABLES
    \* ---- the gocardless sync run (gocardless/src/sync.rs) ----
    requisition,    \* the Requisition read from the API, or NoRequisition
    accounts_todo,  \* the accounts of the requisition not yet listed
    account_id,     \* the account list_account is working on
    transactions,   \* the Transactions response of that account
    by_month,       \* the buckets not yet written
    gsCalls,        \* requests sent to account endpoints in this run
    gsFiles,        \* the output directory: path -> contents
    gsWrote,        \* paths write_file was called for in this run
    gsResult        \* what run returned

gsVars == <<requisition, accounts_todo, account_id, transactions, by_month,
            gsCalls, gsFiles, gsWrote, gsResult>>

VARIABLES
    \* ---- the TrueLayer sync (src/sync.rs) ----
    tlOld,          \* the target directory as the run found it
    tlFiles,        \* the target directory: path -> items
    tlQueue,        \* jobs spawned on the pool and not started, in order
    tlRunning,      \* jobs started and not finished
    tlRan,          \* <<job, response>> of the jobs that returned Ok
    tlFailed        \* a job returned an error and the pool's run with it

tlVars == <<tlOld, tlFiles, tlQueue, tlRunning, tlRan, tlFailed>>

VARIABLES
    \* ---- the gocardless connect command (gocardless/src/connect.rs) ----
    cnPc,           \* where Cmd::run is
    cnx,            \* the CancellationToken is cancelled
    expected_requisition_id,
    cnLog,          \* the requests the listener answered: <<ref, status>>
    cnStateFile,    \* the provider state file: <<>> or <<requisition id>>
    cnResult        \* what run returned

cnVars == <<cnPc, cnx, expected_requisition_id, cnLog, cnStateFile, cnResult>>

VARIABLES
    \* ---- one get/post of the gocardless client (gocardless/src/client.rs) ----
    hcPc,
    hcMethod,
    hcSent,         \* requests sent
    hcResponse,     \* the response received
    hcResult,       \* what get/post returned
    hcHeaders,      \* the rate-limit headers of the response
    hcWarn          \* the header log_rate_limits warned about as missing

hcVars == <<hcPc, hcMethod, hcSent, hcResponse, hcResult, hcHeaders, hcWarn>>

VARIABLES
    \* ---- the sync command (main.rs, sync) ----
    scrape_info,      \* Sync.scrape_info
    scrape_accounts,  \* Sync.scrape_accounts
    scrape_cards      \* Sync.scrape_cards

syVars == <<scrape_info, scrape_accounts, scrape_cards>>

VARIABLES
    \* ---- the code-grant listener (auth/mod.rs, auth/start.rs) ----
    lsPc,            \* where auth::authenticate is
    lsCnx,           \* the CancellationToken is cancelled
    lsFile,          \* the token file
    lsHandler,       \* per callback: where its handler is
    lsCallbacks,     \* callbacks accepted so far
    lsStores,        \* the callbacks whose token was stored, in order
    lsCancelledBy    \* the callbacks whose handler cancelled the token

lsVars == <<lsPc, lsCnx, lsFile, lsHandler, lsCallbacks, lsStores, lsCancelledBy>>

vars == <<poolVars, now, authVars, gcVars, wfVars, mVars, rVars, gsVars, tlVars,
          cnVars, hcVars, syVars, lsVars>>

\* What a step of the pool, of the Authenticator, of the gocardless token
\* code leaves alone.
NotPool == <<now, authVars, gcVars, wfVars, mVars, rVars, gsVars, tlVars, cnVars, hcVars, syVars, lsVars>>
NotAuth == <<poolVars, gcVars, wfVars, mVars, rVars, gsVars, tlVars, cnVars, hcVars, syVars, lsVars>>
NotGc == <<poolVars, authVars, wfVars, mVars, rVars, gsVars, tlVars, cnVars, hcVars, syVars, lsVars>>
NotWf == <<poolVars, now, authVars, gcVars, mVars, rVars, gsVars, tlVars, cnVars, hcVars, syVars, lsVars>>
NotMonths == <<poolVars, now, authVars, gcVars, wfVars, rVars, gsVars, tlVars, cnVars, hcVars, syVars, lsVars>>
NotRange == <<poolVars, now, authVars, gcVars, wfVars, mVars, gsVars, tlVars, cnVars, hcVars, syVars, lsVars>>
NotRun == <<poolVars, now, authVars, gcVars, wfVars, mVars, tlVars, cnVars, hcVars, syVars, lsVars>>
NotTl == <<poolVars, now, authVars, gcVars, wfVars, mVars, rVars, gsVars, cnVars, hcVars, syVars, lsVars>>
NotConnect == <<poolVars, now, authVars, gcVars, wfVars, mVars, rVars, gsVars, tlVars, hcVars, syVars, lsVars>>
NotListener == <<poolVars, now, authVars, gcVars, wfVars, mVars, rVars, gsVars, tlVars, cnVars, hcVars, syVars>>
NotClient == <<poolVars, now, authVars, gcVars, wfVars, mVars, rVars, gsVars, tlVars, cnVars, syVars, lsVars>>

(***************************************************************************)
(* JobPool::new                                                            *)
(***************************************************************************)
PoolInit ==
    /\ concurrency \in 0..MaxConcurrency
    /\ permits = concurrency
    /\ has_terminated = FALSE
    /\ rxAlive = TRUE
    /\ queue = <<>>
    /\ tasks = {}
    /\ pcRun = "new"
    /\ njPermit = FALSE
    /\ stats = [jobs_submitted |-> 0, jobs_started |-> 0, jobs_completed |-> 0]
    /\ nJobs = 0
    /\ status = [j \in JobIds |-> "unborn"]
    /\ jobHandle = [j \in JobIds |-> FALSE]
    /\ parent = [j \in JobIds |-> Main]
    /\ rootHandle = TRUE
    /\ countPending = {}
    /\ lastSpawn = "none"
    /\ runErr = 0

\* The number of live UnboundedSender clones: the root handle and the clones
\* owned by job futures (queued or running).
Senders == (IF rootHandle THEN 1 ELSE 0) + Cardinality({j \in JobIds : jobHandle[j]})

\* An actor can call spawn: it owns a handle and, for a job, its body is running.
HoldsHandle(a) ==
    IF a = Main THEN rootHandle
    ELSE jobHandle[a] /\ status[a] = "running"

\* Dropping the receiver drops every queued Job, and with it the handle clone
\* its future owns.
DropQueued(st) == [j \in JobIds |-> IF st[j] = "queued" THEN "dropped" ELSE st[j]]
DropQueuedHandles(st, jh) == [j \in JobIds |-> jh[j] /\ st[j] # "queued"]

(***************************************************************************)
(* JobHandle::spawn, in its two steps: tx.send, then jobs_submitted += 1.  *)
(***************************************************************************)
\* A bounded channel whose try_send fails when the queue is full.
SendOk_Bounded == rxAlive /\ Len(queue) < 1

\* UnboundedSender::send fails exactly when the receiver is gone.
SendOk == rxAlive

SpawnSend(a, withHandle) ==
    /\ HoldsHandle(a)
    /\ a \notin countPending
    /\ IF SendOk
       THEN /\ nJobs < MaxJobs
            /\ nJobs' = nJobs + 1
            /\ queue' = Append(queue, nJobs + 1)
            /\ status' = [status EXCEPT ![nJobs + 1] = "queued"]
            /\ jobHandle' = [jobHandle EXCEPT ![nJobs + 1] = withHandle]
            /\ parent' = [parent EXCEPT ![nJobs + 1] = a]
            /\ countPending' = countPending \cup {a}
            /\ lastSpawn' = "ok"
       ELSE /\ lastSpawn' = "err"
            /\ UNCHANGED <<nJobs, queue, status, jobHandle, parent, countPending>>
    /\ UNCHANGED <<concurrency, permits, has_terminated, rxAlive, tasks, pcRun,
                   njPermit, stats, rootHandle, runErr>>
    /\ UNCHANGED NotPool

\* A spawn that returns without counting the job it sent.
SpawnCount_Uncounted(a) ==
    /\ a \in countPending
    /\ countPending' = countPending \ {a}
    /\ UNCHANGED <<concurrency, permits, has_terminated, rxAlive, queue, tasks,
                   pcRun, njPermit, stats, nJobs, status, jobHandle, parent,
                   rootHandle, lastSpawn, runErr>>
    /\ UNCHANGED NotPool

\* spawn, after the send: self.stats.lock().jobs_submitted += 1
SpawnCount(a) ==
    /\ a \in countPending
    /\ countPending' = countPending \ {a}
    /\ stats' = [stats EXCEPT !.jobs_submitted = @ + 1]
    /\ UNCHANGED <<concurrency, permits, has_terminated, rxAlive, queue, tasks,
                   pcRun, njPermit, nJobs, status, jobHandle, parent, rootHandle,
                   lastSpawn, runErr>>
    /\ UNCHANGED NotPool

\* drop(handle) by the owner of the root handle.
DropRootHandle ==
    /\ rootHandle
    /\ Main \notin countPending
    /\ rootHandle' = FALSE
    /\ UNCHANGED <<concurrency, permits, has_terminated, rxAlive, queue, tasks,
                   pcRun, njPermit, stats, nJobs, status, jobHandle, parent,
                   countPending, lastSpawn, runErr>>
    /\ UNCHANGED NotPool

(***************************************************************************)
(* A job body running as a task of the JoinSet:                            *)
(*   async move { let res = fut.await; drop(permit); res }                 *)
(***************************************************************************)
JobFinish(j, res) ==
    /\ status[j] = "running"
    /\ j \notin countPending
    /\ status' = [status EXCEPT ![j] = res]
    /\ jobHandle' = [jobHandle EXCEPT ![j] = FALSE]
    /\ permits' = permits + 1
    /\ UNCHANGED <<concurrency, has_terminated, rxAlive, queue, tasks, pcRun,
                   njPermit, stats, nJobs, parent, rootHandle, countPending,
                   lastSpawn, runErr>>
    /\ UNCHANGED NotPool

JobFinishOk(j) == JobFinish(j, "done_ok")
JobFinishErr(j) == JobFinish(j, "done_err")

(***************************************************************************)
(* JobPool::run                                                            *)
(***************************************************************************)
\* The pull arm guarded by has_terminated alone.
PullEnabled_NoCap == ~has_terminated

\* The pull arm with an off-by-one cap.
PullEnabled_OffByOne == Cardinality(tasks) + 1 < concurrency /\ ~has_terminated

\* recv treating an empty queue as a closed channel.
ChannelClosed_EmptyOnly == queue = <<>>

\* rx.recv() returns None: the queue is empty and every sender is dropped.
ChannelClosed == queue = <<>> /\ Senders = 0

\* The preconditions of the two select arms.
PullEnabled == Cardinality(tasks) < concurrency /\ ~has_terminated
ReapEnabled == tasks # {}

RunStart ==
    /\ pcRun = "new"
    /\ pcRun' = "loop"
    /\ UNCHANGED <<concurrency, permits, has_terminated, rxAlive, queue, tasks,
                   njPermit, stats, nJobs, status, jobHandle, parent, rootHandle,
                   countPending, lastSpawn, runErr>>
    /\ UNCHANGED NotPool

\* The JobPool is dropped without run being called.
PoolDropUnrun ==
    /\ pcRun = "new"
    /\ pcRun' = "dropped"
    /\ rxAlive' = FALSE
    /\ queue' = <<>>
    /\ status' = DropQueued(status)
    /\ jobHandle' = DropQueuedHandles(status, jobHandle)
    /\ UNCHANGED <<concurrency, permits, has_terminated, tasks, njPermit, stats,
                   nJobs, parent, rootHandle, countPending, lastSpawn, runErr>>
    /\ UNCHANGED NotPool

\* The top of the loop: break, or enter the select. A select whose branches
\* are all disabled, with no else branch, panics.
LoopTop ==
    /\ pcRun = "loop"
    /\ IF has_terminated /\ tasks = {}
       THEN /\ pcRun' = "ok"
            /\ rxAlive' = FALSE
            /\ queue' = <<>>
            /\ status' = DropQueued(status)
            /\ jobHandle' = DropQueuedHandles(status, jobHandle)
       ELSE IF ~PullEnabled /\ ~ReapEnabled
       THEN /\ pcRun' = "panicked"
            /\ rxAlive' = FALSE
            /\ queue' = <<>>
            /\ status' = DropQueued(status)
            /\ jobHandle' = DropQueuedHandles(status, jobHandle)
       ELSE /\ pcRun' = "select"
            /\ UNCHANGED <<rxAlive, queue, status, jobHandle>>
    /\ UNCHANGED <<concurrency, permits, has_terminated, tasks, njPermit, stats,
                   nJobs, parent, rootHandle, countPending, lastSpawn, runErr>>
    /\ UNCHANGED NotPool

\* next_job, first await: semaphore.acquire_owned().
NextJobAcquire ==
    /\ pcRun = "select"
    /\ PullEnabled
    /\ ~njPermit
    /\ permits > 0
    /\ permits' = permits - 1
    /\ njPermit' = TRUE
    /\ UNCHANGED <<concurrency, has_terminated, rxAlive, queue, tasks, pcRun,
                   stats, nJobs, status, jobHandle, parent, rootHandle,
                   countPending, lastSpawn, runErr>>
    /\ UNCHANGED NotPool

\* next_job, second await: rx.recv() yields a job; the pull arm spawns it.
NextJobRecv ==
    /\ pcRun = "select"
    /\ njPermit
    /\ queue # <<>>
    /\ LET j == Head(queue) IN
        /\ queue' = Tail(queue)
        /\ status' = [status EXCEPT ![j] = "running"]
        /\ tasks' = tasks \cup {j}
    /\ stats' = [stats EXCEPT !.jobs_started = @ + 1]
    /\ njPermit' = FALSE
    /\ pcRun' = "loop"
    /\ UNCHANGED <<concurrency, permits, has_terminated, rxAlive, nJobs,
                   jobHandle, parent, rootHandle, countPending, lastSpawn, runErr>>
    /\ UNCHANGED NotPool

\* next_job, second await: rx.recv() yields None (the queue is empty and every
\* sender is dropped).
NextJobClosed ==
    /\ pcRun = "select"
    /\ njPermit
    /\ ChannelClosed
    /\ has_terminated' = TRUE
    /\ permits' = permits + 1
    /\ njPermit' = FALSE
    /\ pcRun' = "loop"
    /\ UNCHANGED <<concurrency, rxAlive, queue, tasks, stats, nJobs, status,
                   jobHandle, parent, rootHandle, countPending, lastSpawn, runErr>>
    /\ UNCHANGED NotPool

\* A pending next_job future that keeps its permit when it is dropped.
PermitsAfterCancel_Leak == permits

\* Leaving the select through the reap arm drops the pending next_job future
\* and the permit it may hold.
PermitsAfterCancel == IF njPermit THEN permits + 1 ELSE permits

\* The reap arm, the task returned Ok(()).
ReapOk(j) ==
    /\ pcRun = "select"
    /\ j \in tasks
    /\ status[j] = "done_ok"
    /\ tasks' = tasks \ {j}
    /\ status' = [status EXCEPT ![j] = "reaped_ok"]
    /\ stats' = [stats EXCEPT !.jobs_completed = @ + 1]
    /\ permits' = PermitsAfterCancel
    /\ njPermit' = FALSE
    /\ pcRun' = "loop"
    /\ UNCHANGED <<concurrency, has_terminated, rxAlive, queue, nJobs, jobHandle,
                   parent, rootHandle, countPending, lastSpawn, runErr>>
    /\ UNCHANGED NotPool

\* A reap arm that logs the error and goes on with the loop.
ReapErr_Ignore(j) ==
    /\ pcRun = "select"
    /\ j \in tasks
    /\ status[j] = "done_err"
    /\ tasks' = tasks \ {j}
    /\ status' = [status EXCEPT ![j] = "reaped_err"]
    /\ stats' = [stats EXCEPT !.jobs_completed = @ + 1]
    /\ permits' = PermitsAfterCancel
    /\ njPermit' = FALSE
    /\ pcRun' = "loop"
    /\ UNCHANGED <<concurrency, has_terminated, rxAlive, queue, nJobs, jobHandle,
                   parent, rootHandle, countPending, lastSpawn, runErr>>
    /\ UNCHANGED NotPool

\* Dropping the JoinSet aborts every task still in it.
AbortTasks(st, j) ==
    [k \in JobIds |-> IF k = j THEN "reaped_err"
                      ELSE IF st[k] = "running" THEN "aborted"
                      ELSE st[k]]

\* The reap arm, the task returned an error: `result??` returns it from run,
\* which drops `tasks` first.
ReapErrNow(j) ==
    /\ pcRun = "select"
    /\ j \in tasks
    /\ status[j] = "done_err"
    /\ tasks' = {}
    /\ status' = AbortTasks(status, j)
    /\ jobHandle' = [k \in JobIds |-> jobHandle[k] /\ status[k] # "running"]
    /\ stats' = [stats EXCEPT !.jobs_completed = @ + 1]
    /\ permits' = PermitsAfterCancel
                    + Cardinality({k \in tasks : status[k] = "running"})
    /\ njPermit' = FALSE
    /\ runErr' = j
    /\ pcRun' = "unwinding"
    /\ UNCHANGED <<concurrency, has_terminated, rxAlive, queue, nJobs, parent,
                   rootHandle, countPending, lastSpawn>>
    /\ UNCHANGED NotPool

\* A run that drains the other in-flight tasks before it returns the error.
ReapErr_WaitAll(j) ==
    /\ \A k \in tasks : status[k] # "running"
    /\ ReapErrNow(j)

ReapErr(j) == ReapErrNow(j)

\* ... and then drops `self`, the receiver included.
Unwind ==
    /\ pcRun = "unwinding"
    /\ pcRun' = "err"
    /\ rxAlive' = FALSE
    /\ queue' = <<>>
    /\ status' = DropQueued(status)
    /\ jobHandle' = DropQueuedHandles(status, jobHandle)
    /\ UNCHANGED <<concurrency, permits, has_terminated, tasks, njPermit, stats,
                   nJobs, parent, rootHandle, countPending, lastSpawn, runErr>>
    /\ UNCHANGED NotPool

PoolStep ==
    \/ RunStart
    \/ LoopTop
    \/ NextJobAcquire
    \/ NextJobRecv
    \/ NextJobClosed
    \/ \E j \in JobIds : ReapOk(j)
    \/ \E j \in JobIds : ReapErr(j)
    \/ Unwind

PoolNext ==
    \/ PoolStep
    \/ PoolDropUnrun
    \/ \E a \in Actors, h \in BOOLEAN : SpawnSend(a, h)
    \/ \E a \in Actors : SpawnCount(a)
    \/ DropRootHandle
    \/ \E j \in JobIds : JobFinishOk(j)
    \/ \E j \in JobIds : JobFinishErr(j)

(***************************************************************************)
(* The clock.                                                              *)
(***************************************************************************)
Tick ==
    /\ now < MaxTime
    /\ now' = now + 1
    /\ UNCHANGED <<poolVars, authVars, gcVars, wfVars, mVars, rVars, gsVars, tlVars,
                   cnVars, hcVars, syVars, lsVars>>

(***************************************************************************)
(* Authenticator (client/authentication.rs)                                *)
(***************************************************************************)
Callers == 1..MaxCallers
Times == 0..MaxTime
ExpiresIn == 0..MaxExpiresIn

NoRet == [kind |-> "none", via |-> "none", tok |-> <<>>]

\* Authenticator::new over a token file that is absent or holds `file`.
AuthBase(file) ==
    /\ tokenFile = file
    /\ cached_auth_data = <<>>
    /\ lockHolder = 0
    /\ pcCall = [p \in Callers |-> "idle"]
    /\ at = [p \in Callers |-> 0]
    /\ data = [p \in Callers |-> <<>>]
    /\ respExpiresIn = [p \in Callers |-> 0]
    /\ ret = [p \in Callers |-> NoRet]
    /\ overlapped = {}
    /\ nextAccess = 1
    /\ pcAuth = "idle"
    /\ authAt = 0
    /\ authData = <<>>
    /\ authsStarted = 0

\* The token files an earlier run may have left.
InitialFiles ==
    {<<>>} \cup {<<[access_token |-> 0, expires_at |-> x, refresh_token |-> 0]>> : x \in Times}

AuthInit == now = 0 /\ \E f \in InitialFiles : AuthBase(f)
AuthPinned == now = 0 /\ AuthBase(<<>>)

\* An is_expired that lets a token through at the very instant it expires.
IsExpired_Strict(d, t) == d.expires_at < t

\* AuthData::is_expired
IsExpired(d, t) == d.expires_at <= t

\* A lock that never excludes anybody.
LockFree_Always == TRUE

\* The tokio Mutex around cached_auth_data is free.
LockFree == lockHolder = 0

InCall(p) == pcCall[p] \in {"waiting", "reading", "refreshing", "writing"}

\* access_token() is called.
Invoke(p) ==
    /\ pcCall[p] = "idle"
    /\ pcCall' = [pcCall EXCEPT ![p] = "waiting"]
    /\ overlapped' = overlapped \cup {{p, q} : q \in {r \in Callers : InCall(r)}}
    /\ UNCHANGED <<now, tokenFile, cached_auth_data, lockHolder, at, data,
                   respExpiresIn, ret, nextAccess, pcAuth, authAt, authData,
                   authsStarted>>
    /\ UNCHANGED NotAuth

\* lock().await, Utc::now(), and the look at the cache: either the cached
\* token is returned (the guard is dropped) or the call goes on to read the file.
TakeLock(p) ==
    /\ pcCall[p] = "waiting"
    /\ LockFree
    /\ at' = [at EXCEPT ![p] = now]
    /\ IF cached_auth_data # <<>> /\ ~IsExpired(cached_auth_data[1], now)
       THEN /\ ret' = [ret EXCEPT ![p] =
                         [kind |-> "ok", via |-> "cache", tok |-> cached_auth_data]]
            /\ pcCall' = [pcCall EXCEPT ![p] = "done"]
            /\ UNCHANGED lockHolder
       ELSE /\ lockHolder' = p
            /\ pcCall' = [pcCall EXCEPT ![p] = "reading"]
            /\ UNCHANGED ret
    /\ UNCHANGED <<now, tokenFile, cached_auth_data, data, respExpiresIn,
                   overlapped, nextAccess, pcAuth, authAt, authData, authsStarted>>
    /\ UNCHANGED NotAuth

\* A read_auth_data that takes a missing file for an expired token and goes
\* on to refresh.
ReadAuthData_MissingRefreshes(p) ==
    /\ pcCall[p] = "reading"
    /\ tokenFile = <<>>
    /\ data' = [data EXCEPT ![p] =
                  <<[access_token |-> 0, expires_at |-> 0, refresh_token |-> 0]>>]
    /\ pcCall' = [pcCall EXCEPT ![p] = "refreshing"]
    /\ UNCHANGED <<now, tokenFile, cached_auth_data, lockHolder, at,
                   respExpiresIn, ret, overlapped, nextAccess, pcAuth, authAt,
                   authData, authsStarted>>
    /\ UNCHANGED NotAuth

\* read_auth_data and what access_token does with its result: fail when there
\* is no file, return an unexpired token, or send the refresh request.
ReadAuthData(p) ==
    /\ pcCall[p] = "reading"
    /\ IF tokenFile = <<>>
       THEN /\ ret' = [ret EXCEPT ![p] =
                         [kind |-> "err_no_token", via |-> "none", tok |-> <<>>]]
            /\ pcCall' = [pcCall EXCEPT ![p] = "done"]
            /\ lockHolder' = 0
            /\ UNCHANGED <<cached_auth_data, data>>
       ELSE IF ~IsExpired(tokenFile[1], at[p])
       THEN /\ cached_auth_data' = tokenFile
            /\ UNCHANGED data
            /\ ret' = [ret EXCEPT ![p] =
                         [kind |-> "ok", via |-> "file", tok |-> tokenFile]]
            /\ pcCall' = [pcCall EXCEPT ![p] = "done"]
            /\ lockHolder' = 0
       ELSE /\ data' = [data EXCEPT ![p] = tokenFile]
            /\ pcCall' = [pcCall EXCEPT ![p] = "refreshing"]
            /\ UNCHANGED <<cached_auth_data, ret, lockHolder>>
    /\ UNCHANGED <<now, tokenFile, at, respExpiresIn, overlapped, nextAccess,
                   pcAuth, authAt, authData, authsStarted>>
    /\ UNCHANGED NotAuth

\* AuthData::update_from_response: every field of the response, the
\* refresh_token included, replaces the old one; expires_at counts from `at`.
UpdateFromResponse(d, access, expires_in, refresh, fetched_at) ==
    [access_token |-> access,
     expires_at |-> fetched_at + expires_in,
     refresh_token |-> refresh]

\* refresh_access_token: the token endpoint answers the refresh grant.
RefreshOk(p, e, rotate) ==
    /\ pcCall[p] = "refreshing"
    /\ data' = [data EXCEPT ![p] =
                  <<UpdateFromResponse(data[p][1], nextAccess, e,
                        IF rotate THEN nextAccess ELSE data[p][1].refresh_token,
                        at[p])>>]
    /\ respExpiresIn' = [respExpiresIn EXCEPT ![p] = e]
    /\ nextAccess' = nextAccess + 1
    /\ pcCall' = [pcCall EXCEPT ![p] = "writing"]
    /\ UNCHANGED <<now, tokenFile, cached_auth_data, lockHolder, at, ret,
                   overlapped, pcAuth, authAt, authData, authsStarted>>
    /\ UNCHANGED NotAuth

\* refresh_access_token fails: `?` returns the error and drops the guard.
RefreshErr(p) ==
    /\ pcCall[p] = "refreshing"
    /\ ret' = [ret EXCEPT ![p] =
                 [kind |-> "err_refresh", via |-> "none", tok |-> <<>>]]
    /\ pcCall' = [pcCall EXCEPT ![p] = "done"]
    /\ lockHolder' = 0
    /\ data' = [data EXCEPT ![p] = <<>>]
    /\ UNCHANGED <<now, tokenFile, cached_auth_data, at, respExpiresIn,
                   overlapped, nextAccess, pcAuth, authAt, authData, authsStarted>>
    /\ UNCHANGED NotAuth

\* write_auth_data succeeds; the cache is set and the new access string returned.
WriteOk(p) ==
    /\ pcCall[p] = "writing"
    /\ tokenFile' = data[p]
    /\ cached_auth_data' = data[p]
    /\ ret' = [ret EXCEPT ![p] =
                 [kind |-> "ok", via |-> "refresh", tok |-> data[p]]]
    /\ pcCall' = [pcCall EXCEPT ![p] = "done"]
    /\ lockHolder' = 0
    /\ data' = [data EXCEPT ![p] = <<>>]
    /\ UNCHANGED <<now, at, respExpiresIn, overlapped, nextAccess, pcAuth,
                   authAt, authData, authsStarted>>
    /\ UNCHANGED NotAuth

\* A write_auth_data that writes into the token file itself and leaves it
\* empty when it fails.
WriteErr_InPlace(p) ==
    /\ pcCall[p] = "writing"
    /\ tokenFile' = <<>>
    /\ ret' = [ret EXCEPT ![p] =
                 [kind |-> "err_write", via |-> "none", tok |-> <<>>]]
    /\ pcCall' = [pcCall EXCEPT ![p] = "done"]
    /\ lockHolder' = 0
    /\ data' = [data EXCEPT ![p] = <<>>]
    /\ UNCHANGED <<now, cached_auth_data, at, respExpiresIn,
                   overlapped, nextAccess, pcAuth, authAt, authData, authsStarted>>
    /\ UNCHANGED NotAuth

\* write_auth_data fails before the rename.
WriteErr(p) ==
    /\ pcCall[p] = "writing"
    /\ ret' = [ret EXCEPT ![p] =
                 [kind |-> "err_write", via |-> "none", tok |-> <<>>]]
    /\ pcCall' = [pcCall EXCEPT ![p] = "done"]
    /\ lockHolder' = 0
    /\ data' = [data EXCEPT ![p] = <<>>]
    /\ UNCHANGED <<now, tokenFile, cached_auth_data, at, respExpiresIn,
                   overlapped, nextAccess, pcAuth, authAt, authData, authsStarted>>
    /\ UNCHANGED NotAuth

\* Authenticator::authenticate: fetched_at = Utc::now(), then the code grant.
AuthenticateStart ==
    /\ pcAuth = "idle"
    /\ authsStarted < MaxAuths
    /\ authsStarted' = authsStarted + 1
    /\ authAt' = now
    /\ pcAuth' = "fetching"
    /\ UNCHANGED <<now, tokenFile, cached_auth_data, lockHolder, pcCall, at,
                   data, respExpiresIn, ret, overlapped, nextAccess, authData>>
    /\ UNCHANGED NotAuth

\* AuthData::from_response
FromResponse(access, expires_in, refresh, fetched_at) ==
    [access_token |-> access,
     expires_at |-> fetched_at + expires_in,
     refresh_token |-> refresh]

AuthenticateFetched(e) ==
    /\ pcAuth = "fetching"
    /\ authData' = <<FromResponse(nextAccess, e, nextAccess, authAt)>>
    /\ nextAccess' = nextAccess + 1
    /\ pcAuth' = "writing"
    /\ UNCHANGED <<now, tokenFile, cached_auth_data, lockHolder, pcCall, at,
                   data, respExpiresIn, ret, overlapped, authAt, authsStarted>>
    /\ UNCHANGED NotAuth

\* authenticate: write_auth_data(&state); the cache is not touched.
AuthenticateWritten ==
    /\ pcAuth = "writing"
    /\ tokenFile' = authData
    /\ pcAuth' = "idle"
    /\ authData' = <<>>
    /\ UNCHANGED <<now, cached_auth_data, lockHolder, pcCall, at, data,
                   respExpiresIn, ret, overlapped, nextAccess, authAt,
                   authsStarted>>
    /\ UNCHANGED NotAuth

\* authenticate: the grant or the write fails.
AuthenticateFailed ==
    /\ pcAuth \in {"fetching", "writing"}
    /\ pcAuth' = "idle"
    /\ authData' = <<>>
    /\ UNCHANGED <<now, tokenFile, cached_auth_data, lockHolder, pcCall, at,
                   data, respExpiresIn, ret, overlapped, nextAccess, authAt,
                   authsStarted>>
    /\ UNCHANGED NotAuth

\* The steps of the access_token() call of p.
AccessTokenStep(p) ==
    \/ Invoke(p)
    \/ TakeLock(p)
    \/ ReadAuthData(p)
    \/ \E e \in ExpiresIn, rotate \in BOOLEAN : RefreshOk(p, e, rotate)
    \/ RefreshErr(p)
    \/ WriteOk(p)
    \/ WriteErr(p)

\* The steps of authenticate().
AuthenticateStep ==
    \/ AuthenticateStart
    \/ \E e \in ExpiresIn : AuthenticateFetched(e)
    \/ AuthenticateWritten
    \/ AuthenticateFailed

\* A process that serves requests: concurrent access_token() calls on one
\* Authenticator (authenticate is called by the auth command alone,
\* auth/start.rs, in a process that never calls access_token).
AuthNext ==
    \/ Tick
    \/ \E p \in Callers : AccessTokenStep(p)

\* One Authenticator on which authenticate() and the access_token() calls of
\* a single caller are made.
GrantNext ==
    \/ Tick
    \/ AuthenticateStep
    \/ AccessTokenStep(1)

(***************************************************************************)
(* gocardless: the token file and AuthArgs::load_token (auth.rs)           *)
(***************************************************************************)
\* The token files an earlier run may have left: access_expires is not
\* later than refresh_expires.
GcInitialFiles ==
    {<<>>} \cup
    {<<[access |-> 0, access_expires |-> a, refresh |-> 0, refresh_expires |-> r]>> :
        a \in Times, r \in Times}

\* The lifetimes (seconds) the token endpoints put in their responses.
GcExpiresIn == 0..MaxGcExpiresIn

GcBase(file) ==
    /\ gcFile = file
    /\ gcTorn = FALSE
    /\ gcPc = "idle"
    /\ gcAuthedAt = 0
    /\ gcRefreshAt = 0
    /\ gcTok = <<>>
    /\ gcResult = "none"
    /\ gcRefreshReqs = 0
    /\ gcNewReqs = 0
    /\ gcRuns = 0

GcInit ==
    /\ now = 0
    /\ \E f \in GcInitialFiles :
         /\ (f # <<>> => f[1].access_expires <= f[1].refresh_expires)
         /\ GcBase(f)
GcPinned == GcBase(<<>>)

\* A from_token_pair that gives the refresh credential the lifetime of the
\* access credential.
FromTokenPair_OneLifetime(authed_at, access, access_expires, refresh, refresh_expires) ==
    [access |-> access,
     access_expires |-> authed_at + access_expires,
     refresh |-> refresh,
     refresh_expires |-> authed_at + access_expires]

\* Token::from_token_pair
FromTokenPair(authed_at, access, access_expires, refresh, refresh_expires) ==
    [access |-> access,
     access_expires |-> authed_at + access_expires,
     refresh |-> refresh,
     refresh_expires |-> authed_at + refresh_expires]

\* Token::refreshed
Refreshed(tok, authed_at, access, access_expires) ==
    [access |-> access,
     access_expires |-> authed_at + access_expires,
     refresh |-> tok.refresh,
     refresh_expires |-> tok.refresh_expires]

\* AuthArgs::load_token: authed_at = Utc::now().
GcStart ==
    /\ gcPc = "idle"
    /\ gcRuns < MaxGcRuns
    /\ gcRuns' = gcRuns + 1
    /\ gcAuthedAt' = now
    /\ gcTok' = <<>>
    /\ gcResult' = "none"
    /\ gcPc' = "load"
    /\ UNCHANGED <<now, gcFile, gcTorn, gcRefreshAt, gcRefreshReqs, gcNewReqs>>
    /\ UNCHANGED NotGc

\* load_token(path): no file gives None; a file that does not parse is an
\* error; an expired access token is refreshed (refresh_token samples
\* authed_at and POSTs token/refresh); otherwise the token read is the result.
GcLoad ==
    /\ gcPc = "load"
    /\ IF gcTorn
       THEN /\ gcResult' = "err_parse"
            /\ gcPc' = "idle"
            /\ UNCHANGED <<gcTok, gcRefreshAt, gcRefreshReqs>>
       ELSE IF gcFile = <<>>
       THEN /\ gcPc' = "check"
            /\ UNCHANGED <<gcTok, gcRefreshAt, gcRefreshReqs, gcResult>>
       ELSE IF gcFile[1].access_expires <= now
       THEN /\ gcTok' = gcFile
            /\ gcRefreshAt' = now
            /\ gcRefreshReqs' = gcRefreshReqs + 1
            /\ gcPc' = "refreshing"
            /\ UNCHANGED gcResult
       ELSE /\ gcTok' = gcFile
            /\ gcPc' = "check"
            /\ UNCHANGED <<gcRefreshAt, gcRefreshReqs, gcResult>>
    /\ UNCHANGED <<now, gcFile, gcTorn, gcAuthedAt, gcNewReqs, gcRuns>>
    /\ UNCHANGED NotGc

\* refresh_token: the endpoint answers; token.refreshed(authed_at, &refresh).
GcRefreshOk(e) ==
    /\ gcPc = "refreshing"
    /\ gcTok' = <<Refreshed(gcTok[1], gcRefreshAt, gcRefreshReqs + gcNewReqs, e)>>
    /\ gcPc' = "store_refreshed"
    /\ UNCHANGED <<now, gcFile, gcTorn, gcAuthedAt, gcRefreshAt, gcResult,
                   gcRefreshReqs, gcNewReqs, gcRuns>>
    /\ UNCHANGED NotGc

\* refresh_token fails: load_token(path) and AuthArgs::load_token return the error.
GcRefreshErr ==
    /\ gcPc = "refreshing"
    /\ gcResult' = "err_refresh"
    /\ gcPc' = "idle"
    /\ UNCHANGED <<now, gcFile, gcTorn, gcAuthedAt, gcRefreshAt, gcTok,
                   gcRefreshReqs, gcNewReqs, gcRuns>>
    /\ UNCHANGED NotGc

\* store_token, first half: tokio::fs::write opens the token file itself with
\* create + truncate; from here on the file exists and is empty.
GcStoreCreate ==
    /\ gcPc \in {"store_refreshed", "store_new"}
    /\ gcFile' = <<>>
    /\ gcTorn' = TRUE
    /\ gcPc' = IF gcPc = "store_refreshed" THEN "write_refreshed" ELSE "write_new"
    /\ UNCHANGED <<now, gcAuthedAt, gcRefreshAt, gcTok, gcResult,
                   gcRefreshReqs, gcNewReqs, gcRuns>>
    /\ UNCHANGED NotGc

\* store_token, second half: write_all puts the serialized token in the file.
\* After a refresh the run goes on in AuthArgs::load_token; after token/new
\* the token is returned.
GcStoreWrite ==
    /\ gcPc \in {"write_refreshed", "write_new"}
    /\ gcFile' = gcTok
    /\ gcTorn' = FALSE
    /\ IF gcPc = "write_refreshed"
       THEN gcPc' = "check" /\ UNCHANGED gcResult
       ELSE gcPc' = "idle" /\ gcResult' = "ok_new"
    /\ UNCHANGED <<now, gcAuthedAt, gcRefreshAt, gcTok, gcRefreshReqs,
                   gcNewReqs, gcRuns>>
    /\ UNCHANGED NotGc

\* store_token fails (the open, or the write after it): `?` returns the error
\* and the token file stays as the failed step left it.
GcStoreErr ==
    /\ gcPc \in {"store_refreshed", "store_new", "write_refreshed", "write_new"}
    /\ gcResult' = "err_store"
    /\ gcPc' = "idle"
    /\ UNCHANGED <<now, gcFile, gcTorn, gcAuthedAt, gcRefreshAt, gcTok,
                   gcRefreshReqs, gcNewReqs, gcRuns>>
    /\ UNCHANGED NotGc

\* The process is killed in the middle of a run; a later run starts afresh
\* over whatever is in the token file.
GcKilled ==
    /\ gcPc # "idle"
    /\ gcResult' = "killed"
    /\ gcPc' = "idle"
    /\ UNCHANGED <<now, gcFile, gcTorn, gcAuthedAt, gcRefreshAt, gcTok,
                   gcRefreshReqs, gcNewReqs, gcRuns>>
    /\ UNCHANGED NotGc

\* AuthArgs::load_token: a token whose refresh_expires >= authed_at is
\* returned; otherwise the secrets are loaded and token/new is POSTed.
GcCheck ==
    /\ gcPc = "check"
    /\ IF gcTok # <<>> /\ gcTok[1].refresh_expires >= gcAuthedAt
       THEN /\ gcResult' = "ok"
            /\ gcPc' = "idle"
            /\ UNCHANGED gcNewReqs
       ELSE /\ gcNewReqs' = gcNewReqs + 1
            /\ gcPc' = "authing"
            /\ UNCHANGED gcResult
    /\ UNCHANGED <<now, gcFile, gcTorn, gcAuthedAt, gcRefreshAt, gcTok,
                   gcRefreshReqs, gcRuns>>
    /\ UNCHANGED NotGc

\* token/new answers: Token::from_token_pair(authed_at, &tokens).
GcNewOk(ea, er) ==
    /\ gcPc = "authing"
    /\ gcTok' = <<FromTokenPair(gcAuthedAt, gcRefreshReqs + gcNewReqs, ea,
                                gcRefreshReqs + gcNewReqs, er)>>
    /\ gcPc' = "store_new"
    /\ UNCHANGED <<now, gcFile, gcTorn, gcAuthedAt, gcRefreshAt, gcResult,
                   gcRefreshReqs, gcNewReqs, gcRuns>>
    /\ UNCHANGED NotGc

\* token/new (or load_secrets) fails.
GcNewErr ==
    /\ gcPc = "authing"
    /\ gcResult' = "err_new"
    /\ gcPc' = "idle"
    /\ UNCHANGED <<now, gcFile, gcTorn, gcAuthedAt, gcRefreshAt, gcTok,
                   gcRefreshReqs, gcNewReqs, gcRuns>>
    /\ UNCHANGED NotGc

GcNext ==
    \/ Tick
    \/ GcStart
    \/ GcLoad
    \/ \E e \in GcExpiresIn : GcRefreshOk(e)
    \/ GcRefreshErr
    \/ GcStoreCreate
    \/ GcStoreWrite
    \/ GcStoreErr
    \/ GcKilled
    \/ GcCheck
    \/ \E ea \in GcExpiresIn, er \in GcExpiresIn : GcNewOk(ea, er)
    \/ GcNewErr

(***************************************************************************)
(* Files of the mirror: write_jsons_atomically (sync.rs) and write_file    *)
(* (gocardless/src/sync.rs).  A file is a sequence of bytes; the bytes     *)
(* that matter are the line feed, the backslash, the quote and letters.    *)
(***************************************************************************)
LF == "LF"
Chars == {"a", LF, "bs"}

\* The strings of at most n characters.
RECURSIVE StringsUpTo(_)
StringsUpTo(n) ==
    IF n = 0 THEN {<<>>}
    ELSE LET shorter == StringsUpTo(n - 1)
         IN shorter \cup {Append(w, c) : w \in shorter, c \in Chars}

\* A record is a string value.
Items == StringsUpTo(MaxItemLen)

RECURSIVE SeqsUpTo(_)
SeqsUpTo(n) ==
    IF n = 0 THEN {<<>>}
    ELSE LET shorter == SeqsUpTo(n - 1)
         IN shorter \cup {Append(w, x) : w \in shorter, x \in Items}

Payloads == SeqsUpTo(MaxRecords)

\* A serializer that copies the characters of a string as they are.
RECURSIVE EscapeChars_Raw(_)
EscapeChars_Raw(w) ==
    IF w = <<>> THEN <<>> ELSE <<Head(w)>> \o EscapeChars_Raw(Tail(w))

\* serde_json's string escaping: a line feed becomes \n, a backslash \\.
RECURSIVE EscapeChars(_)
EscapeChars(w) ==
    IF w = <<>> THEN <<>>
    ELSE (IF Head(w) = LF THEN <<"bs", "n">>
          ELSE IF Head(w) = "bs" THEN <<"bs", "bs">>
          ELSE <<Head(w)>>) \o EscapeChars(Tail(w))

\* serde_json::to_writer(&mut buf, &item): the compact form, a quoted string.
ToWriter(item) == <<"q">> \o EscapeChars(item) \o <<"q">>

\* serde_json::to_string_pretty(&data)
ToStringPretty(item) == <<"q">> \o EscapeChars(item) \o <<"q">>

\* buf.contains(&b'\n')
Contains(buf, b) == \E i \in 1..Len(buf) : buf[i] = b

\* What the mirror may hold at `path` before the call.
OldFiles == {<<>>, <<<<>>>>, <<ToWriter(<<"a">>) \o <<LF>>>>}

WfBase ==
    /\ wfTmp = <<>>
    /\ wfIdx = 1
    /\ wfBuf = <<>>
    /\ wfPath = wfOld
    /\ wfDir = (wfOld # <<>>)

WfPinned ==
    /\ wfOld = <<>> /\ wfData = <<>> /\ wfPc = "idle" /\ WfBase

\* write_jsons_atomically(path, data) is called.
WjInit ==
    /\ wfOld \in OldFiles
    /\ wfData \in Payloads
    /\ wfPc = "create_dir_all"
    /\ WfBase

\* std::fs::create_dir_all(dir)?
CreateDirAll ==
    /\ wfPc = "create_dir_all"
    /\ wfDir' = TRUE
    /\ wfPc' = "new_in"
    /\ UNCHANGED <<wfPath, wfTmp, wfOld, wfData, wfIdx, wfBuf>>
    /\ UNCHANGED NotWf

\* NamedTempFile::new_in(dir)?: an empty file under a fresh name in dir.
NewIn ==
    /\ wfPc = "new_in"
    /\ wfTmp' = <<<<>>>>
    /\ wfPc' = "for_item"
    /\ UNCHANGED <<wfPath, wfDir, wfOld, wfData, wfIdx, wfBuf>>
    /\ UNCHANGED NotWf

\* The head of the loop: serialize the next record into buf and assert that
\* buf holds no line feed (a failed assertion unwinds, dropping the temporary
\* file); after the last record go on to the flush.
ForItem ==
    /\ wfPc = "for_item"
    /\ IF wfIdx > Len(wfData)
       THEN /\ wfPc' = "flush"
            /\ UNCHANGED <<wfBuf, wfTmp>>
       ELSE IF Contains(ToWriter(wfData[wfIdx]), LF)
       THEN /\ wfPc' = "panicked"
            /\ wfTmp' = <<>>
            /\ wfBuf' = <<>>
       ELSE /\ wfBuf' = ToWriter(wfData[wfIdx])
            /\ wfPc' = "write_buf"
            /\ UNCHANGED wfTmp
    /\ UNCHANGED <<wfPath, wfDir, wfOld, wfData, wfIdx>>
    /\ UNCHANGED NotWf

\* A write_all that appends the record to the file at `path` itself.
WriteBuf_InPlace ==
    /\ wfPc = "write_buf"
    /\ wfPath' = <<(IF wfPath = <<>> THEN <<>> ELSE wfPath[1]) \o wfBuf>>
    /\ wfPc' = "write_lf"
    /\ UNCHANGED <<wfTmp, wfDir, wfOld, wfData, wfIdx, wfBuf>>
    /\ UNCHANGED NotWf

\* tmpf.write_all(&buf)?
WriteBuf ==
    /\ wfPc = "write_buf"
    /\ wfTmp' = <<wfTmp[1] \o wfBuf>>
    /\ wfPc' = "write_lf"
    /\ UNCHANGED <<wfPath, wfDir, wfOld, wfData, wfIdx, wfBuf>>
    /\ UNCHANGED NotWf

\* tmpf.write_all(b"\n")?; buf.clear()
WriteLf ==
    /\ wfPc = "write_lf"
    /\ wfTmp' = <<wfTmp[1] \o <<LF>>>>
    /\ wfBuf' = <<>>
    /\ wfIdx' = wfIdx + 1
    /\ wfPc' = "for_item"
    /\ UNCHANGED <<wfPath, wfDir, wfOld, wfData>>
    /\ UNCHANGED NotWf

\* tmpf.as_file_mut().flush()?
Flush ==
    /\ wfPc = "flush"
    /\ wfPc' = "persist"
    /\ UNCHANGED <<wfPath, wfTmp, wfDir, wfOld, wfData, wfIdx, wfBuf>>
    /\ UNCHANGED NotWf

\* tmpf.persist(path)?: rename(2) of the temporary file over `path`.
Persist ==
    /\ wfPc = "persist"
    /\ wfPath' = wfTmp
    /\ wfTmp' = <<>>
    /\ wfPc' = "ok"
    /\ UNCHANGED <<wfDir, wfOld, wfData, wfIdx, wfBuf>>
    /\ UNCHANGED NotWf

\* Any of the `?` returns an error: the NamedTempFile is dropped, which
\* removes the temporary file.
WjErr ==
    /\ wfPc \in {"create_dir_all", "new_in", "write_buf", "write_lf", "flush",
                 "persist"}
    /\ wfTmp' = <<>>
    /\ wfBuf' = <<>>
    /\ wfPc' = "err"
    /\ UNCHANGED <<wfPath, wfDir, wfOld, wfData, wfIdx>>
    /\ UNCHANGED NotWf

\* The process is killed: nothing is cleaned up.
WjKilled ==
    /\ wfPc \in {"create_dir_all", "new_in", "for_item", "write_buf", "write_lf",
                 "flush", "persist"}
    /\ wfPc' = "killed"
    /\ UNCHANGED <<wfPath, wfTmp, wfDir, wfOld, wfData, wfIdx, wfBuf>>
    /\ UNCHANGED NotWf

WjNext ==
    \/ CreateDirAll
    \/ NewIn
    \/ ForItem
    \/ WriteBuf
    \/ WriteLf
    \/ Flush
    \/ Persist
    \/ WjErr
    \/ WjKilled

(***************************************************************************)
(* gocardless Cmd::write_file: the file at `path` is written in place.     *)
(***************************************************************************)
\* write_file(path, data) is called with one value to store.
WfInit ==
    /\ wfOld \in OldFiles
    /\ wfData \in {<<x>> : x \in Items}
    /\ wfPc = "wf_create_dir_all"
    /\ WfBase

\* tokio::fs::create_dir_all(parent).await?
WfCreateDirAll ==
    /\ wfPc = "wf_create_dir_all"
    /\ wfDir' = TRUE
    /\ wfPc' = "wf_create"
    /\ UNCHANGED <<wfPath, wfTmp, wfOld, wfData, wfIdx, wfBuf>>
    /\ UNCHANGED NotWf

\* tokio::fs::File::create(&path).await?: `path` is opened with create and
\* truncate; then serde_json::to_string_pretty(&data)?.
WfFileCreate ==
    /\ wfPc = "wf_create"
    /\ wfPath' = <<<<>>>>
    /\ wfBuf' = ToStringPretty(wfData[1])
    /\ wfIdx' = 1
    /\ wfPc' = "wf_write_all"
    /\ UNCHANGED <<wfTmp, wfDir, wfOld, wfData>>
    /\ UNCHANGED NotWf

\* of.write_all(buf.as_bytes()).await?: the bytes reach the file one write
\* after the other.
WfWriteAll ==
    /\ wfPc = "wf_write_all"
    /\ IF wfIdx <= Len(wfBuf)
       THEN /\ wfPath' = <<Append(wfPath[1], wfBuf[wfIdx])>>
            /\ wfIdx' = wfIdx + 1
            /\ UNCHANGED wfPc
       ELSE /\ wfPc' = "wf_flush"
            /\ UNCHANGED <<wfPath, wfIdx>>
    /\ UNCHANGED <<wfTmp, wfDir, wfOld, wfData, wfBuf>>
    /\ UNCHANGED NotWf

\* of.flush().await?
WfFlush ==
    /\ wfPc = "wf_flush"
    /\ wfPc' = "ok"
    /\ UNCHANGED <<wfPath, wfTmp, wfDir, wfOld, wfData, wfIdx, wfBuf>>
    /\ UNCHANGED NotWf

\* One of the `?` returns an error, or the process is killed: the file stays
\* as the steps so far left it.
WfErr ==
    /\ wfPc \in {"wf_create_dir_all", "wf_create", "wf_write_all", "wf_flush"}
    /\ wfPc' = "err"
    /\ UNCHANGED <<wfPath, wfTmp, wfDir, wfOld, wfData, wfIdx, wfBuf>>
    /\ UNCHANGED NotWf

WfNext ==
    \/ WfCreateDirAll
    \/ WfFileCreate
    \/ WfWriteAll
    \/ WfFlush
    \/ WfErr

(***************************************************************************)
(* months(period) (sync.rs).  A NaiveDate is the number of its day,        *)
(* counted from 2024-01-01; month m is the m-th month from January 2024.   *)
(***************************************************************************)
MonthLen == <<31, 28, 31, 30, 31, 30, 31, 31, 30, 31, 30, 31>>
LenOf(m) ==
    IF ((m - 1) % 12) + 1 = 2 /\ ((m - 1) \div 12) % 4 = 0
    THEN 29
    ELSE MonthLen[((m - 1) % 12) + 1]

\* The date of the first day of month m.
RECURSIVE FirstOf(_)
FirstOf(m) == IF m = 1 THEN 1 ELSE FirstOf(m - 1) + LenOf(m - 1)

\* The dates a period is made of, and the dates iter_days() goes through:
\* the calendar goes on after the last date of any period.
Dates == 1..(FirstOf(MaxMonths + 1) - 1)
CalMonths == MaxMonths + 1
CalDates == 1..(FirstOf(CalMonths + 1) - 1)

\* Datelike::month, as a table over the calendar.
MonthOfDate ==
    [d \in CalDates |-> CHOOSE m \in 1..CalMonths : FirstOf(m) <= d /\ d < FirstOf(m + 1)]
MonthOf(d) == MonthOfDate[d]

\* Datelike::day, as a table over the calendar, and Datelike::with_day(1)
DayOfDate == [d \in CalDates |-> d - FirstOf(MonthOf(d)) + 1]
Day(d) == DayOfDate[d]
WithDay1(d) == d - (Day(d) - 1)

\* The dates that pass filter(|d| d.day() == 1).
Day1Dates == {d \in CalDates : Day(d) = 1}

\* NaiveDate::pred_opt
Pred(d) == d - 1

Min(a, b) == IF a <= b THEN a ELSE b

\* iter_days().filter(|d| d.day() == 1), next(): the first date from `from`
\* on that is the first of a month, <<>> when the dates run out.
FilterDay1(from) ==
    LET firsts == {d \in Day1Dates : d >= from}
    IN IF firsts = {} THEN <<>>
       ELSE <<CHOOSE d \in firsts : \A x \in firsts : d <= x>>

\* A month end that is not cut at the end of the period.
MonthEnd_NoMin(d, end) == Pred(d)

\* month_ends: |d| min(d.pred_opt().unwrap(), *period.end())
MonthEnd(d, end) == Min(Pred(d), end)

\* A take_while that stops at a month beginning on the last day of the period.
TakeWhile_Strict(d, end) == d < end

\* take_while(move |d| d <= period.end())
TakeWhile(d, end) == d <= end

\* months(period): month_start_date = period.start().with_day(1); both
\* iterators start there, and skip(1) takes month_ends past that date.
MonthsBase(start, end) ==
    /\ period = <<start, end>>
    /\ month_starts = WithDay1(start)
    /\ month_ends = WithDay1(start) + 1
    /\ emitted = <<>>
    /\ mPc = "iter"

MonthsInit == \E start \in Dates, end \in Dates : MonthsBase(start, end)

MonthsPinned ==
    /\ period = <<1, 1>> /\ month_starts = 1 /\ month_ends = 1
    /\ emitted = <<>> /\ mPc = "done"

\* One next() of the zip: the next month start that passes the take_while,
\* paired with the next month end, gives the bucket a..=b.
MonthsIterNext ==
    /\ mPc = "iter"
    /\ LET a == FilterDay1(month_starts)
           b == FilterDay1(month_ends)
       IN IF a = <<>> \/ ~TakeWhile(a[1], period[2]) \/ b = <<>>
          THEN /\ mPc' = "done"
               /\ UNCHANGED <<month_starts, month_ends, emitted>>
          ELSE /\ emitted' = Append(emitted, <<a[1], MonthEnd(b[1], period[2])>>)
               /\ month_starts' = a[1] + 1
               /\ month_ends' = b[1] + 1
               /\ UNCHANGED mPc
    /\ UNCHANGED period
    /\ UNCHANGED NotMonths

MonthsNext == MonthsIterNext

(***************************************************************************)
(* gocardless sync: the date range (gocardless/src/sync.rs, Cmd::run).     *)
(***************************************************************************)
HistoryDays == 0..MaxHistoryDays

\* Datelike::day0
Day0(d) == Day(d) - 1

\* A date + Months::new(1) that keeps the day number and runs over into the
\* month after when the next month is too short.
AddMonth_NoClamp(d) == FirstOf(MonthOf(d) + 1) + Day0(d)

\* NaiveDate + Months::new(1): the same day of the next month, or its last
\* day when the next month is shorter.
AddMonth(d) == FirstOf(MonthOf(d) + 1) + Min(Day(d), LenOf(MonthOf(d) + 1)) - 1

\* Cmd::run reaches the range computation on the day `today` with a provider
\* whose history reaches back history_days (not beyond the first date).
RangeInit ==
    /\ today \in Dates
    /\ history_days \in HistoryDays
    /\ today - history_days >= 1
    /\ start_date = 1
    /\ end_date = 1
    /\ rPc = "range"

RangePinned ==
    /\ today = 1 /\ history_days = 0 /\ start_date = 1 /\ end_date = 1
    /\ rPc = "idle"

\* end_date = Local::now().date_naive(); start_date = end_date - history_days
RangeFromToday ==
    /\ rPc = "range"
    /\ end_date' = today
    /\ start_date' = today - history_days
    /\ rPc' = "adjust"
    /\ UNCHANGED <<today, history_days>>
    /\ UNCHANGED NotRange

\* if start_date.day() > 1 { start_date + Months::new(1), then back by day0 }
RangeAdjust ==
    /\ rPc = "adjust"
    /\ IF Day(start_date) > 1
       THEN start_date' = AddMonth(start_date) - Day0(AddMonth(start_date))
       ELSE UNCHANGED start_date
    /\ rPc' = "scan"
    /\ UNCHANGED <<today, history_days, end_date>>
    /\ UNCHANGED NotRange

RangeNext ==
    \/ RangeFromToday
    \/ RangeAdjust

(***************************************************************************)
(* gocardless sync: the run (gocardless/src/sync.rs, Cmd::run and          *)
(* list_account).  The run goes through rPc: start, get_requisition,       *)
(* check, range, adjust, scan, details, balances, transactions, buckets,   *)
(* and ends in done or failed.                                             *)
(***************************************************************************)
\* Option::None of a date or a date-time (dates count from 1).
None == 0

RequisitionStatus ==
    {"Created", "GivingConsent", "UndergoingAuthentication", "Rejected",
     "SelectingAccounts", "GrantingAccess", "Linked", "Expired"}

NoRequisition == [status |-> "none", accounts |-> <<>>]

\* The account ids a requisition may carry.
AccountLists == {<<>>, <<"acc1">>}

\* Requisition::is_linked
IsLinked(r) == r.status = "Linked"

\* A DateTime is its date and the part of the day; date_naive() drops the
\* part of the day.
DayParts == 2
DateNaive(dt) == dt \div DayParts

\* The dates transactions carry: two months, not the first of either.
TxDates == {FirstOf(1) + 19, FirstOf(2) + 2}
OptDates == {None} \cup TxDates
OptDateTimes == {None} \cup {d * DayParts + 1 : d \in TxDates}

TxShapes ==
    [booking_date : OptDates, booking_date_time : OptDateTimes,
     value_date : OptDates]

WithId(sh, i) ==
    [id |-> i, booking_date |-> sh.booking_date,
     booking_date_time |-> sh.booking_date_time, value_date |-> sh.value_date]

\* The Transactions responses with n transactions, the first k booked.
ResponsesOf(n, k) ==
    { [booked |-> [i \in 1..k |-> WithId(sh[i], i)],
       pending |-> [i \in 1..(n - k) |-> WithId(sh[k + i], k + i)]] :
        sh \in [1..n -> TxShapes] }

TxResponses ==
    UNION { UNION { ResponsesOf(n, k) : k \in 0..n } : n \in 0..MaxTx }

\* Option::or
Or(a, b) == IF a # None THEN a ELSE b

\* booking_date_time.map(|dt| dt.date_naive())
MapDateNaive(dt) == IF dt = None THEN None ELSE DateNaive(dt)

\* The date of a transaction, with value_date taking precedence.
TxDate_ValueFirst(tx) ==
    Or(Or(tx.value_date, tx.booking_date), MapDateNaive(tx.booking_date_time))

\* booking_date.or(booking_date_time.map(..)).or(value_date)
TxDate(tx) ==
    Or(Or(tx.booking_date, MapDateNaive(tx.booking_date_time)), tx.value_date)

\* date.map(|d| d.with_day(1))
StartOfMonth(date) == IF date = None THEN None ELSE WithDay1(date)

\* Transactions::default()
DefaultTransactions == [booked |-> <<>>, pending |-> <<>>]

\* by_month.entry(key).or_default()
EntryOrDefault(map, key) ==
    IF key \in DOMAIN map THEN map[key] ELSE DefaultTransactions

EmptyMap == [k \in {} |-> DefaultTransactions]

\* by_month.entry(start_of_month).or_default().transactions.booked.push(tx)
PushBooked(map, tx) ==
    LET key == StartOfMonth(TxDate(tx))
        cur == EntryOrDefault(map, key)
    IN [k \in DOMAIN map \cup {key} |->
            IF k = key THEN [cur EXCEPT !.booked = Append(@, tx)] ELSE map[k]]

\* by_month.entry(start_of_month).or_default().transactions.pending.push(tx)
PushPending(map, tx) ==
    LET key == StartOfMonth(TxDate(tx))
        cur == EntryOrDefault(map, key)
    IN [k \in DOMAIN map \cup {key} |->
            IF k = key THEN [cur EXCEPT !.pending = Append(@, tx)] ELSE map[k]]

RECURSIVE ForBooked(_, _)
ForBooked(map, txs) ==
    IF txs = <<>> THEN map ELSE ForBooked(PushBooked(map, Head(txs)), Tail(txs))

RECURSIVE ForPending(_, _)
ForPending(map, txs) ==
    IF txs = <<>> THEN map
    ELSE ForPending(PushPending(map, Head(txs)), Tail(txs))

\* The two loops of list_account over the response.
ByMonth(resp) == ForPending(ForBooked(EmptyMap, resp.booked), resp.pending)

\* month.format("%Y-%m.json")
YmJson ==
    <<"2024-01.json", "2024-02.json", "2024-03.json", "2024-04.json",
      "2024-05.json", "2024-06.json", "2024-07.json", "2024-08.json",
      "2024-09.json", "2024-10.json", "2024-11.json", "2024-12.json">>

\* The file name of a bucket.
FileName(month) ==
    IF month = None THEN "undated.json" ELSE YmJson[MonthOf(month)]

\* account_base.join(fname)
Join(acc, fname) == <<acc, fname>>

EmptyDir == [q \in {} |-> DefaultTransactions]

\* write_file(path, data) once it has returned Ok.
WriteFile(files, path, value) ==
    [q \in DOMAIN files \cup {path} |-> IF q = path THEN value ELSE files[q]]

\* The responses of the two other account endpoints.
Details(acc) == [account |-> acc]
Balances(acc) == [balances |-> acc]

RECURSIVE WriteBuckets(_, _, _)
WriteBuckets(files, acc, map) ==
    IF DOMAIN map = {} THEN files
    ELSE LET k == CHOOSE x \in DOMAIN map : TRUE
         IN WriteBuckets(WriteFile(files, Join(acc, FileName(k)), map[k]),
                         acc, [x \in DOMAIN map \ {k} |-> map[x]])

\* What an earlier successful run left: one booked transaction of January,
\* numbered apart from those of this run.
PreviousResponse ==
    [booked |-> <<[id |-> 0, booking_date |-> FirstOf(1) + 19,
                   booking_date_time |-> None, value_date |-> None]>>,
     pending |-> <<>>]

PreviousRunDir ==
    WriteBuckets(
        WriteFile(WriteFile(EmptyDir, Join("acc1", "account-details.json"),
                            Details("acc1")),
                  Join("acc1", "balances.json"), Balances("acc1")),
        "acc1", ByMonth(PreviousResponse))

GsOldDirs == {EmptyDir, PreviousRunDir}

GsBase ==
    /\ requisition = NoRequisition
    /\ accounts_todo = <<>>
    /\ account_id = "none"
    /\ transactions = DefaultTransactions
    /\ by_month = EmptyMap
    /\ gsCalls = 0
    /\ gsWrote = {}
    /\ gsResult = "none"

GsPinned == GsBase /\ gsFiles = EmptyDir

\* A run starts on 2024-03-10 with history_days = 45, over an output
\* directory that is empty or was filled by an earlier run.
GsInit ==
    /\ GsBase
    /\ gsFiles \in GsOldDirs
    /\ today = FirstOf(3) + 9
    /\ history_days = MaxHistoryDays
    /\ start_date = 1
    /\ end_date = 1
    /\ rPc = "start"

\* config.load, load_token, the provider lookup and load_state succeed.
GsLoad ==
    /\ rPc = "start"
    /\ rPc' = "get_requisition"
    /\ UNCHANGED <<today, history_days, start_date, end_date>>
    /\ UNCHANGED gsVars
    /\ UNCHANGED NotRun

\* client.get::<Requisition>(/api/v2/requisitions/{id}/) returns Ok.
GsGetRequisition(st, accs) ==
    /\ rPc = "get_requisition"
    /\ requisition' = [status |-> st, accounts |-> accs]
    /\ rPc' = "check"
    /\ UNCHANGED <<today, history_days, start_date, end_date>>
    /\ UNCHANGED <<accounts_todo, account_id, transactions, by_month, gsCalls,
                   gsFiles, gsWrote, gsResult>>
    /\ UNCHANGED NotRun

\* The run goes on whatever the status of the requisition.
GsCheckLinked_Skip ==
    /\ rPc = "check"
    /\ rPc' = "range"
    /\ accounts_todo' = requisition.accounts
    /\ UNCHANGED gsResult
    /\ UNCHANGED <<today, history_days, start_date, end_date>>
    /\ UNCHANGED <<requisition, account_id, transactions, by_month, gsCalls,
                   gsFiles, gsWrote>>
    /\ UNCHANGED NotRun

\* if !requisition.is_linked() { return Err(..) }
GsCheckLinked ==
    /\ rPc = "check"
    /\ IF ~IsLinked(requisition)
       THEN /\ rPc' = "failed"
            /\ gsResult' = "err_not_linked"
            /\ UNCHANGED accounts_todo
       ELSE /\ rPc' = "range"
            /\ accounts_todo' = requisition.accounts
            /\ UNCHANGED gsResult
    /\ UNCHANGED <<today, history_days, start_date, end_date>>
    /\ UNCHANGED <<requisition, account_id, transactions, by_month, gsCalls,
                   gsFiles, gsWrote>>
    /\ UNCHANGED NotRun

\* for acc in requisition.accounts: the next account, or Ok(()) after the last.
GsNextAccount ==
    /\ rPc = "scan"
    /\ IF accounts_todo = <<>>
       THEN /\ rPc' = "done"
            /\ gsResult' = "ok"
            /\ UNCHANGED <<accounts_todo, account_id>>
       ELSE /\ rPc' = "details"
            /\ account_id' = Head(accounts_todo)
            /\ accounts_todo' = Tail(accounts_todo)
            /\ UNCHANGED gsResult
    /\ UNCHANGED <<today, history_days, start_date, end_date>>
    /\ UNCHANGED <<requisition, transactions, by_month, gsCalls, gsFiles,
                   gsWrote>>
    /\ UNCHANGED NotRun

\* GET /api/v2/accounts/{id}/ and write_file(account-details.json).
GsDetails ==
    /\ rPc = "details"
    /\ gsCalls' = gsCalls + 1
    /\ gsFiles' = WriteFile(gsFiles, Join(account_id, "account-details.json"),
                            Details(account_id))
    /\ gsWrote' = gsWrote \cup {Join(account_id, "account-details.json")}
    /\ rPc' = "balances"
    /\ UNCHANGED <<today, history_days, start_date, end_date>>
    /\ UNCHANGED <<requisition, accounts_todo, account_id, transactions,
                   by_month, gsResult>>
    /\ UNCHANGED NotRun

\* GET /api/v2/accounts/{id}/balances/ and write_file(balances.json).
GsBalances ==
    /\ rPc = "balances"
    /\ gsCalls' = gsCalls + 1
    /\ gsFiles' = WriteFile(gsFiles, Join(account_id, "balances.json"),
                            Balances(account_id))
    /\ gsWrote' = gsWrote \cup {Join(account_id, "balances.json")}
    /\ rPc' = "transactions"
    /\ UNCHANGED <<today, history_days, start_date, end_date>>
    /\ UNCHANGED <<requisition, accounts_todo, account_id, transactions,
                   by_month, gsResult>>
    /\ UNCHANGED NotRun

\* GET /api/v2/accounts/{id}/transactions/ and the two bucketing loops.
GsTransactions(resp) ==
    /\ rPc = "transactions"
    /\ gsCalls' = gsCalls + 1
    /\ transactions' = resp
    /\ by_month' = ByMonth(resp)
    /\ rPc' = "buckets"
    /\ UNCHANGED <<today, history_days, start_date, end_date>>
    /\ UNCHANGED <<requisition, accounts_todo, account_id, gsFiles, gsWrote,
                   gsResult>>
    /\ UNCHANGED NotRun

\* for (month, transactions) in by_month: one bucket, in the map's order.
GsWriteBucket ==
    /\ rPc = "buckets"
    /\ \E month \in DOMAIN by_month :
        /\ gsFiles' = WriteFile(gsFiles, Join(account_id, FileName(month)),
                                by_month[month])
        /\ gsWrote' = gsWrote \cup {Join(account_id, FileName(month))}
        /\ by_month' = [k \in DOMAIN by_month \ {month} |-> by_month[k]]
    /\ UNCHANGED rPc
    /\ UNCHANGED <<today, history_days, start_date, end_date>>
    /\ UNCHANGED <<requisition, accounts_todo, account_id, transactions,
                   gsCalls, gsResult>>
    /\ UNCHANGED NotRun

\* list_account returns Ok(()) after the last bucket.
GsAccountDone ==
    /\ rPc = "buckets"
    /\ DOMAIN by_month = {}
    /\ rPc' = "scan"
    /\ UNCHANGED <<today, history_days, start_date, end_date>>
    /\ UNCHANGED gsVars
    /\ UNCHANGED NotRun

\* Any of the steps that end in `?` fails and run returns the error.
GsErr ==
    /\ rPc \in {"start", "get_requisition", "details", "balances",
                "transactions", "buckets"}
    /\ rPc' = "failed"
    /\ gsResult' = "err"
    /\ UNCHANGED <<today, history_days, start_date, end_date>>
    /\ UNCHANGED <<requisition, accounts_todo, account_id, transactions,
                   by_month, gsCalls, gsFiles, gsWrote>>
    /\ UNCHANGED NotRun

GsNext ==
    \/ GsLoad
    \/ \E st \in RequisitionStatus, accs \in AccountLists :
           GsGetRequisition(st, accs)
    \/ GsCheckLinked
    \/ RangeFromToday
    \/ RangeAdjust
    \/ GsNextAccount
    \/ GsDetails
    \/ GsBalances
    \/ \E resp \in TxResponses : GsTransactions(resp)
    \/ GsWriteBucket
    \/ GsAccountDone
    \/ GsErr

(***************************************************************************)
(* TrueLayer sync (src/sync.rs): sync_accounts and sync_cards write the    *)
(* account files and spawn the balance, pending and month jobs on the      *)
(* pool; the pool starts the jobs in the order they were spawned, up to    *)
(* TlConcurrency at a time, and they finish in any order.                  *)
(***************************************************************************)
\* The pool's concurrency in the runs looked at.
TlConcurrency == 2

\* The period of the runs looked at: 2024-01-20 ..= 2024-02-10.
TlPeriod == <<FirstOf(1) + 19, FirstOf(2) + 9>>

\* months(period) as the list its iterator yields.
RECURSIVE ZipMonths(_, _, _)
ZipMonths(starts, ends, end) ==
    LET a == FilterDay1(starts)
        b == FilterDay1(ends)
    IN IF a = <<>> \/ ~TakeWhile(a[1], end) \/ b = <<>>
       THEN <<>>
       ELSE <<<<a[1], MonthEnd(b[1], end)>>>>
                \o ZipMonths(a[1] + 1, b[1] + 1, end)

Months(p) == ZipMonths(WithDay1(p[1]), WithDay1(p[1]) + 1, p[2])

\* AccountNumber: sort_code and number are Option<String>, <<>> for None.
AccountNumbers ==
    {[sort_code |-> <<>>, number |-> <<>>],
     [sort_code |-> <<"s1">>, number |-> <<>>],
     [sort_code |-> <<"s1">>, number |-> <<"n1">>]}

AccountsResult(id) == [account_id : {id}, account_number : AccountNumbers]

\* What fetch_accounts may return: up to two accounts with distinct ids.
AccountsResponses ==
    {<<>>} \cup {<<a>> : a \in AccountsResult("a1")}
           \cup {<<a, b>> : a \in AccountsResult("a1"), b \in AccountsResult("a2")}

\* What fetch_cards may return.
CardsResponses == {<<>>, <<[account_id |-> "c1"]>>}

\* account_dir_name: "{sort_code} {number}" when both are present, else the
\* account id.
AccountDirName(account) ==
    IF account.account_number.sort_code # <<>>
        /\ account.account_number.number # <<>>
    THEN <<account.account_number.sort_code[1], " ",
           account.account_number.number[1]>>
    ELSE <<account.account_id>>

\* month.start().format("%Y-%m.jsons")
YmJsons ==
    <<"2024-01.jsons", "2024-02.jsons", "2024-03.jsons", "2024-04.jsons",
      "2024-05.jsons", "2024-06.jsons", "2024-07.jsons", "2024-08.jsons",
      "2024-09.jsons", "2024-10.jsons", "2024-11.jsons", "2024-12.jsons">>

Job(kind, account, month) == [kind |-> kind, account |-> account, month |-> month]

TxKinds == {"account_tx", "card_tx"}

\* The path a job writes to.
PathOf(job) ==
    CASE job.kind = "account_balance" ->
            <<"accounts", AccountDirName(job.account), "balance.jsons">>
      [] job.kind = "account_pending" ->
            <<"accounts", AccountDirName(job.account), "pending.jsons">>
      [] job.kind = "account_standing_orders" ->
            <<"accounts", AccountDirName(job.account), "standing-orders.jsons">>
      [] job.kind = "account_direct_debits" ->
            <<"accounts", AccountDirName(job.account), "standing-orders.jsons">>
      [] job.kind = "account_tx" ->
            <<"accounts", AccountDirName(job.account),
              YmJsons[MonthOf(job.month[1])]>>
      [] job.kind = "card_balance" ->
            <<"cards", <<job.account.account_id>>, "balance.jsons">>
      [] job.kind = "card_pending" ->
            <<"cards", <<job.account.account_id>>, "pending.jsons">>
      [] job.kind = "card_tx" ->
            <<"cards", <<job.account.account_id>>,
              YmJsons[MonthOf(job.month[1])]>>

\* The results a job's request may return, newest first.
Responses(job) ==
    CASE job.kind \in TxKinds ->
            {<<>>, <<<<job.account.account_id, "t2">>,
                     <<job.account.account_id, "t1">>>>}
      [] job.kind \in {"account_balance", "card_balance"} ->
            {<<<<job.account.account_id, "balance">>>>}
      [] job.kind \in {"account_pending", "card_pending"} ->
            {<<<<job.account.account_id, "pending">>>>}
      [] job.kind = "account_standing_orders" ->
            {<<<<job.account.account_id, "standing-order">>>>}
      [] job.kind = "account_direct_debits" ->
            {<<<<job.account.account_id, "direct-debit">>>>}
      [] OTHER -> {}

\* Vec::reverse
Reverse(list) == [i \in 1..Len(list) |-> list[Len(list) + 1 - i]]

\* A month job that writes its file whatever the list.
Writes_Always(job, resp) == TRUE

\* if txes.results.is_empty() { return Ok(()) }: a month job with an empty
\* list returns before the write.
Writes(job, resp) == ~(job.kind \in TxKinds /\ resp = <<>>)

\* The items a job hands to write_jsons_atomically.
Payload(job, resp) == IF job.kind \in TxKinds THEN Reverse(resp) ELSE resp

\* A write that leaves the written file alone in the directory.
Persisted_Alone(files, path, items) == [q \in {path} |-> items]

\* write_jsons_atomically(path, items) once it has returned Ok.
Persisted(files, path, items) ==
    [q \in DOMAIN files \cup {path} |-> IF q = path THEN items ELSE files[q]]

\* account(): the jobs spawned for one account, in order.
AccountJobs(account) ==
    <<Job("account_balance", account, <<>>),
      Job("account_pending", account, <<>>)>>
    \o [i \in 1..Len(Months(TlPeriod)) |->
            Job("account_tx", account, Months(TlPeriod)[i])]

\* card(): the jobs spawned for one card, in order.
CardJobs(card) ==
    <<Job("card_balance", [account_id |-> card.account_id], <<>>),
      Job("card_pending", [account_id |-> card.account_id], <<>>)>>
    \o [i \in 1..Len(Months(TlPeriod)) |->
            Job("card_tx", [account_id |-> card.account_id],
                Months(TlPeriod)[i])]

\* accounts(): account.jsons of every account, in order.
RECURSIVE AccountFiles(_, _)
AccountFiles(files, list) ==
    IF list = <<>> THEN files
    ELSE AccountFiles(
            Persisted(files,
                      <<"accounts", AccountDirName(Head(list)), "account.jsons">>,
                      <<Head(list)>>),
            Tail(list))

\* cards(): cards.jsons, then account.jsons of every card, in order.
RECURSIVE CardFiles(_, _)
CardFiles(files, list) ==
    IF list = <<>> THEN files
    ELSE CardFiles(
            Persisted(files,
                      <<"cards", <<Head(list).account_id>>, "account.jsons">>,
                      <<Head(list)>>),
            Tail(list))

\* for account_item in accounts { account(..) }
RECURSIVE SpawnAccounts(_)
SpawnAccounts(list) ==
    IF list = <<>> THEN <<>>
    ELSE AccountJobs(Head(list)) \o SpawnAccounts(Tail(list))

\* for card_result in cards { card(..) }
RECURSIVE SpawnCards(_)
SpawnCards(list) ==
    IF list = <<>> THEN <<>>
    ELSE CardJobs(Head(list)) \o SpawnCards(Tail(list))

\* What an earlier run over the same period left for account a1, whose
\* January list was not empty then.
TlPreviousAccount ==
    [account_id |-> "a1",
     account_number |-> [sort_code |-> <<>>, number |-> <<>>]]

TlPreviousDir ==
    Persisted(
        Persisted(
            Persisted(AccountFiles(EmptyDir, <<TlPreviousAccount>>),
                      PathOf(Job("account_balance", TlPreviousAccount, <<>>)),
                      <<<<"a1", "balance0">>>>),
            PathOf(Job("account_pending", TlPreviousAccount, <<>>)),
            <<<<"a1", "pending0">>>>),
        PathOf(Job("account_tx", TlPreviousAccount, Months(TlPeriod)[1])),
        <<<<"a1", "t0">>>>)

TlOldDirs == {EmptyDir, TlPreviousDir}

TlBase(old) ==
    /\ tlOld = old
    /\ tlFiles = old
    /\ tlRunning = {}
    /\ tlRan = {}
    /\ tlFailed = FALSE

TlPinned ==
    /\ TlBase(EmptyDir)
    /\ tlQueue = <<>>

\* main spawns sync_accounts and sync_cards on the pool, in this order.
SyncAccountsJob == Job("sync_accounts", [account_id |-> "all"], <<>>)
SyncCardsJob == Job("sync_cards", [account_id |-> "all"], <<>>)
SyncKinds == {"sync_accounts", "sync_cards"}

TlInit ==
    /\ \E old \in TlOldDirs : TlBase(old)
    /\ tlQueue = <<SyncAccountsJob, SyncCardsJob>>

\* The state in which account() has spawned the two jobs of its disabled
\* block for one account.
SoInit ==
    /\ \E old \in TlOldDirs : TlBase(old)
    /\ \E id \in {"a1", "a2"} : \E account \in AccountsResult(id) :
           tlQueue = <<Job("account_standing_orders", account, <<>>),
                       Job("account_direct_debits", account, <<>>)>>

\* The pool starts the oldest spawned job when a slot is free.
TlStart ==
    /\ ~tlFailed
    /\ tlQueue # <<>>
    /\ Cardinality(tlRunning) < TlConcurrency
    /\ tlRunning' = tlRunning \cup {Head(tlQueue)}
    /\ tlQueue' = Tail(tlQueue)
    /\ UNCHANGED <<tlOld, tlFiles, tlRan, tlFailed>>
    /\ UNCHANGED NotTl

\* sync_accounts: accounts() writes account.jsons of every account, then
\* account() spawns the jobs of each.
TlSyncAccounts(list) ==
    /\ ~tlFailed
    /\ SyncAccountsJob \in tlRunning
    /\ tlFiles' = AccountFiles(tlFiles, list)
    /\ tlQueue' = tlQueue \o SpawnAccounts(list)
    /\ tlRunning' = tlRunning \ {SyncAccountsJob}
    /\ tlRan' = tlRan \cup {<<SyncAccountsJob, list>>}
    /\ UNCHANGED <<tlOld, tlFailed>>
    /\ UNCHANGED NotTl

\* sync_cards: cards() writes cards.jsons and account.jsons of every card,
\* then card() spawns the jobs of each.
TlSyncCards(list) ==
    /\ ~tlFailed
    /\ SyncCardsJob \in tlRunning
    /\ tlFiles' = CardFiles(Persisted(tlFiles, <<"cards.jsons">>, list), list)
    /\ tlQueue' = tlQueue \o SpawnCards(list)
    /\ tlRunning' = tlRunning \ {SyncCardsJob}
    /\ tlRan' = tlRan \cup {<<SyncCardsJob, list>>}
    /\ UNCHANGED <<tlOld, tlFailed>>
    /\ UNCHANGED NotTl

\* A running job gets its response, writes its file unless it is a month
\* job with an empty list, and returns Ok.
TlFinish ==
    /\ ~tlFailed
    /\ \E job \in tlRunning : \E resp \in Responses(job) :
        /\ job.kind \notin SyncKinds
        /\ tlRunning' = tlRunning \ {job}
        /\ tlRan' = tlRan \cup {<<job, resp>>}
        /\ IF Writes(job, resp)
           THEN tlFiles' = Persisted(tlFiles, PathOf(job), Payload(job, resp))
           ELSE UNCHANGED tlFiles
    /\ UNCHANGED <<tlOld, tlQueue, tlFailed>>
    /\ UNCHANGED NotTl

\* A running job fails on its request or on its write; the pool's run
\* returns the error and drops the other tasks.
TlJobErr ==
    /\ ~tlFailed
    /\ tlRunning # {}
    /\ tlRunning' = {}
    /\ tlQueue' = <<>>
    /\ tlFailed' = TRUE
    /\ UNCHANGED <<tlOld, tlFiles, tlRan>>
    /\ UNCHANGED NotTl

TlNext ==
    \/ TlStart
    \/ \E list \in AccountsResponses : TlSyncAccounts(list)
    \/ \E list \in CardsResponses : TlSyncCards(list)
    \/ TlFinish
    \/ TlJobErr

SoNext ==
    \/ TlStart
    \/ TlFinish
    \/ TlJobErr

\* The pool's run has returned Ok: every job has run and none failed.
TlSuccessful ==
    /\ tlQueue = <<>> /\ tlRunning = {}
    /\ ~tlFailed

(***************************************************************************)
(* gocardless connect (gocardless/src/connect.rs): Cmd::run creates the    *)
(* requisition, serves the callback until the token is cancelled, and      *)
(* reads the requisition again.                                            *)
(***************************************************************************)
\* The ids upstream may give the new requisition, and the `ref` values of
\* requests: those two and one that is no Uuid.
Uuids == {"r1", "r2"}
Refs == Uuids \cup {"not-a-uuid"}

\* The provider state file before the command: absent, or naming an
\* earlier requisition.
CnOldStates == {<<>>, <<"r0">>}

\* A handler that cancels whatever the ref.
HandleRedirect_CancelAlways(id, expected) ==
    IF id # expected
    THEN [status |-> 404, cancel |-> TRUE]
    ELSE [status |-> 200, cancel |-> TRUE]

\* handle_redirect: the status it answers and whether it calls cnx.cancel().
HandleRedirect(id, expected) ==
    IF id # expected
    THEN [status |-> 404, cancel |-> FALSE]
    ELSE [status |-> 200, cancel |-> TRUE]

\* Query<RequisitionCallbackQuery>: a ref that is no Uuid is rejected with
\* 400 before the handler runs.
Route(ref, expected) ==
    IF ref \notin Uuids
    THEN [status |-> 400, cancel |-> FALSE]
    ELSE HandleRedirect(ref, expected)

CnBase ==
    /\ cnx = FALSE
    /\ expected_requisition_id = "none"
    /\ cnLog = <<>>
    /\ cnResult = "none"

CnPinned == CnBase /\ cnPc = "idle" /\ cnStateFile = <<>>

CnInit ==
    /\ CnBase
    /\ cnPc = "start"
    /\ cnStateFile \in CnOldStates

\* load_token, bind, POST /api/v2/requisitions/ return Ok; the router is
\* built for the id of the new requisition and the server starts.
CnCreate(id) ==
    /\ cnPc = "start"
    /\ expected_requisition_id' = id
    /\ cnPc' = "serving"
    /\ UNCHANGED <<cnx, cnLog, cnStateFile, cnResult>>
    /\ UNCHANGED NotConnect

\* GET /?ref=.. arrives while the server runs.
CnCallback(ref) ==
    /\ cnPc = "serving"
    /\ Len(cnLog) < MaxCallbacks
    /\ cnLog' = Append(cnLog, <<ref, Route(ref, expected_requisition_id).status>>)
    /\ cnx' = (cnx \/ Route(ref, expected_requisition_id).cancel)
    /\ UNCHANGED <<cnPc, expected_requisition_id, cnStateFile, cnResult>>
    /\ UNCHANGED NotConnect

\* with_graceful_shutdown(cnx.cancelled_owned()): serve returns once the
\* token is cancelled.
CnShutdown ==
    /\ cnPc = "serving"
    /\ cnx
    /\ cnPc' = "final"
    /\ UNCHANGED <<cnx, expected_requisition_id, cnLog, cnStateFile, cnResult>>
    /\ UNCHANGED NotConnect

\* GET /api/v2/requisitions/{id}/ returns Ok, the requisition is logged and
\* run returns Ok(()).
CnFinal ==
    /\ cnPc = "final"
    /\ cnPc' = "done"
    /\ cnResult' = "ok"
    /\ UNCHANGED <<cnx, expected_requisition_id, cnLog, cnStateFile>>
    /\ UNCHANGED NotConnect

\* One of the steps of run that end in `?` fails.
CnErr ==
    /\ cnPc \in {"start", "final"}
    /\ cnPc' = "failed"
    /\ cnResult' = "err"
    /\ UNCHANGED <<cnx, expected_requisition_id, cnLog, cnStateFile>>
    /\ UNCHANGED NotConnect

CnNext ==
    \/ \E id \in Uuids : CnCreate(id)
    \/ \E ref \in Refs : CnCallback(ref)
    \/ CnShutdown
    \/ CnFinal
    \/ CnErr

(***************************************************************************)
(* gocardless client (gocardless/src/client.rs): one get or post.          *)
(***************************************************************************)
Statuses == {200, 400, 401, 404, 429, 500}

\* The Content-Type header: absent, or one of these values.
ContentTypes ==
    {<<>>, <<"application/json">>, <<"application/json; charset=utf-8">>,
     <<"text/html">>}

\* Response bodies: the API's error object, the object the caller expects,
\* JSON that is no object, and text that is no JSON.
Bodies == {"error_object", "value_object", "json_array", "html"}

HttpResponses == [status : Statuses, content_type : ContentTypes, body : Bodies]

NoResponse == [status |-> 0, content_type |-> <<>>, body |-> "html"]

\* StatusCode::is_client_error, is_server_error
IsClientError(code) == 400 <= code /\ code <= 499
IsServerError(code) == 500 <= code /\ code <= 599

\* resp.json::<ErrorResponse>(): every field has a default, so any JSON
\* object decodes; status_code is the one of the body.
JsonErrorResponse(body) ==
    CASE body = "error_object" ->
            <<[summary |-> "Invalid token", detail |-> "Token is invalid",
               status_code |-> 401]>>
      [] body = "value_object" ->
            <<[summary |-> "", detail |-> "", status_code |-> 0]>>
      [] OTHER -> <<>>

\* resp.json::<Response>(): the caller's type decodes from its own object.
JsonResponse(body) == IF body = "value_object" THEN <<"value">> ELSE <<>>

\* A parse_error that lets every response through.
ParseError_PassAll(resp) == [kind |-> "pass"]

\* parse_error: what it returns for a response, "pass" for Ok(resp).
ParseError(resp) ==
    IF IsClientError(resp.status) /\ resp.content_type = <<"application/json">>
    THEN IF JsonErrorResponse(resp.body) # <<>>
         THEN [kind |-> "error_response",
               summary |-> JsonErrorResponse(resp.body)[1].summary,
               detail |-> JsonErrorResponse(resp.body)[1].detail,
               status_code |-> JsonErrorResponse(resp.body)[1].status_code]
         ELSE [kind |-> "decode"]
    ELSE IF IsClientError(resp.status) /\ resp.content_type # <<>>
    THEN [kind |-> "unrecognised", status |-> resp.status, content |-> resp.body]
    ELSE IF IsClientError(resp.status) \/ IsServerError(resp.status)
    THEN [kind |-> "status", status |-> resp.status]
    ELSE [kind |-> "pass"]

\* The rate-limit headers, in the order log_rate_limits reads them.
RateLimitHeaderNames ==
    <<"HTTP_X_RATELIMIT_LIMIT", "HTTP_X_RATELIMIT_REMAINING",
      "HTTP_X_RATELIMIT_RESET", "HTTP_X_RATELIMIT_ACCOUNT_SUCCESS_LIMIT",
      "HTTP_X_RATELIMIT_ACCOUNT_SUCCESS_REMAINING",
      "HTTP_X_RATELIMIT_ACCOUNT_SUCCESS_RESET">>
GeneralHeaders == <<1, 2, 3>>
AccountHeaders == <<4, 5, 6>>

\* A header is absent or has one of these values: a small integer, text
\* that is no integer and, for the two reset headers, the largest i64.
HeaderValues == {<<>>, <<"10">>, <<"x">>}
ResetValues == HeaderValues \cup {<<"9223372036854775807">>}
RateLimitHeaders ==
    {<<l, r, t, al, ar, at_>> : l \in HeaderValues, r \in HeaderValues,
        t \in ResetValues, al \in HeaderValues, ar \in HeaderValues,
        at_ \in ResetValues}
NoHeaders == [i \in 1..Len(RateLimitHeaderNames) |-> <<>>]

\* str::parse::<i64>
ParsesAsI64(v) == v \in {<<"10">>, <<"9223372036854775807">>}

\* started_at + Duration::seconds(reset) is defined: Duration::seconds
\* panics beyond i64::MAX / 1000 seconds, and so does the addition when the
\* date leaves chrono's range.
InDurationRange(v) == v = <<"10">>

\* A maybe_parse_header that takes a value it cannot parse for a missing
\* header.
MaybeParseHeader_Lenient(hdrs, i) ==
    IF ParsesAsI64(hdrs[i]) THEN [kind |-> "some"] ELSE [kind |-> "none"]

\* maybe_parse_header: Ok(None), Ok(Some(_)) or the parse error.
MaybeParseHeader(hdrs, i) ==
    IF hdrs[i] = <<>> THEN [kind |-> "none"]
    ELSE IF ParsesAsI64(hdrs[i]) THEN [kind |-> "some"]
    ELSE [kind |-> "err"]

\* The first of the headers `group` that maybe_parse_header does not return
\* Some for, 0 when there is none.
FirstNotSome(hdrs, group) ==
    LET stops == {k \in 1..Len(group) : MaybeParseHeader(hdrs, group[k]).kind # "some"}
    IN IF stops = {} THEN 0
       ELSE group[CHOOSE k \in stops : \A x \in stops : k <= x]

\* log_rate_limits: the three general headers and then the three
\* per-account ones, each group followed by its reset_at.  `warn` is the
\* header reported missing by warn!.
LogRateLimits(hdrs) ==
    LET g == FirstNotSome(hdrs, GeneralHeaders)
        a == FirstNotSome(hdrs, AccountHeaders)
    IN IF g # 0
       THEN IF MaybeParseHeader(hdrs, g).kind = "none"
            THEN [kind |-> "ok", warn |-> <<RateLimitHeaderNames[g]>>]
            ELSE [kind |-> "err", header |-> RateLimitHeaderNames[g]]
       ELSE IF ~InDurationRange(hdrs[GeneralHeaders[3]])
       THEN [kind |-> "panic"]
       ELSE IF a # 0
       THEN IF MaybeParseHeader(hdrs, a).kind = "none"
            THEN [kind |-> "ok", warn |-> <<>>]
            ELSE [kind |-> "err", header |-> RateLimitHeaderNames[a]]
       ELSE IF ~InDurationRange(hdrs[AccountHeaders[3]])
       THEN [kind |-> "panic"]
       ELSE [kind |-> "ok", warn |-> <<>>]

HcBase ==
    /\ hcSent = 0
    /\ hcResponse = NoResponse
    /\ hcResult = [kind |-> "none"]
    /\ hcHeaders = NoHeaders
    /\ hcWarn = <<>>

HcPinned == HcBase /\ hcPc = "idle" /\ hcMethod = "get"

HcInit == HcBase /\ hcPc = "send" /\ hcMethod \in {"get", "post"}

\* .send().await returns the response.
HcSend(resp) ==
    /\ hcPc = "send"
    /\ hcSent' = hcSent + 1
    /\ hcResponse' = resp
    /\ hcPc' = "parse_error"
    /\ UNCHANGED <<hcMethod, hcResult, hcHeaders, hcWarn>>
    /\ UNCHANGED NotClient

\* .send().await fails.
HcSendErr ==
    /\ hcPc = "send"
    /\ hcSent' = hcSent + 1
    /\ hcResult' = [kind |-> "transport"]
    /\ hcPc' = "done"
    /\ UNCHANGED <<hcMethod, hcResponse, hcHeaders, hcWarn>>
    /\ UNCHANGED NotClient

\* .parse_error().await?
HcParseError ==
    /\ hcPc = "parse_error"
    /\ IF ParseError(hcResponse).kind = "pass"
       THEN hcPc' = "rate_limits" /\ UNCHANGED hcResult
       ELSE hcPc' = "done" /\ hcResult' = ParseError(hcResponse)
    /\ UNCHANGED <<hcMethod, hcSent, hcResponse, hcHeaders, hcWarn>>
    /\ UNCHANGED NotClient

\* log_rate_limits(&resp, started_at)?: the response that passed parse_error
\* carries the rate-limit headers hdrs (those of a response that did not
\* pass are never looked at).
HcLogRateLimits(hdrs) ==
    /\ hcPc = "rate_limits"
    /\ hcHeaders' = hdrs
    /\ IF LogRateLimits(hdrs).kind = "ok"
       THEN /\ hcPc' = "json"
            /\ hcWarn' = LogRateLimits(hdrs).warn
            /\ UNCHANGED hcResult
       ELSE /\ hcPc' = "done"
            /\ hcResult' = (IF LogRateLimits(hdrs).kind = "err"
                            THEN [kind |-> "header",
                                  header |-> LogRateLimits(hdrs).header]
                            ELSE [kind |-> "panic"])
            /\ UNCHANGED hcWarn
    /\ UNCHANGED <<hcMethod, hcSent, hcResponse>>
    /\ UNCHANGED NotClient

\* resp.json().await?; Ok(data)
HcJson ==
    /\ hcPc = "json"
    /\ hcResult' = (IF JsonResponse(hcResponse.body) # <<>>
                    THEN [kind |-> "ok", data |-> JsonResponse(hcResponse.body)[1]]
                    ELSE [kind |-> "decode"])
    /\ hcPc' = "done"
    /\ UNCHANGED <<hcMethod, hcSent, hcResponse, hcHeaders, hcWarn>>
    /\ UNCHANGED NotClient

HcNext ==
    \/ \E resp \in HttpResponses : HcSend(resp)
    \/ HcSendErr
    \/ HcParseError
    \/ \E hdrs \in RateLimitHeaders : HcLogRateLimits(hdrs)
    \/ HcJson

(***************************************************************************)
(* The sync command (main.rs, sync; sync.rs)                               *)
(***************************************************************************)
\* The jobs sync enqueues through the root handle, in the order of its ifs.
RootJobs ==
    (IF scrape_info THEN <<"sync_info">> ELSE <<>>)
    \o (IF scrape_accounts THEN <<"sync_accounts">> ELSE <<>>)
    \o (IF scrape_cards THEN <<"sync_cards">> ELSE <<>>)

\* What job j is: the jobs of the root handle come first, every later one is a
\* balance, pending or monthly transactions job enqueued by a root job.
KindOf(j) == IF j <= Len(RootJobs) THEN RootJobs[j] ELSE "child"

\* sync_accounts and sync_cards are called with handle.clone(); sync_info is not.
TakesHandle(kind) == kind \in {"sync_accounts", "sync_cards"}

SyPinned == scrape_info = FALSE /\ scrape_accounts = FALSE /\ scrape_cards = FALSE

SyInit ==
    /\ PoolInit
    /\ scrape_info \in BOOLEAN
    /\ scrape_accounts \in BOOLEAN
    /\ scrape_cards \in BOOLEAN

\* handle.spawn(sync_info(..)) / handle.spawn(sync_accounts(.., handle.clone()))
\* / handle.spawn(sync_cards(.., handle.clone())): the send.
SyRootSpawnSend ==
    /\ pcRun = "new"
    /\ nJobs < Len(RootJobs)
    /\ SpawnSend(Main, TakesHandle(RootJobs[nJobs + 1]))

\* ... and the count of that spawn.
SyRootSpawnCount == SpawnCount(Main)

\* drop(handle), after the three ifs.
SyDropHandle ==
    /\ nJobs = Len(RootJobs)
    /\ DropRootHandle

\* pool.run().await, after the drop.
SyRun ==
    /\ ~rootHandle
    /\ PoolStep

\* account / card: jobs.spawn(account_balance(..)), jobs.spawn(account_pending(..)),
\* jobs.spawn(account_tx(..)) and the card ones, none of them given a handle.
SyChildSpawnSend(j) ==
    /\ TakesHandle(KindOf(j))
    /\ SpawnSend(j, FALSE)

SyChildSpawnCount(j) ==
    /\ j \in JobIds
    /\ SpawnCount(j)

SyNext ==
    \/ SyRootSpawnSend
    \/ SyRootSpawnCount
    \/ SyDropHandle
    \/ SyRun
    \/ \E j \in JobIds : SyChildSpawnSend(j)
    \/ \E j \in JobIds : SyChildSpawnCount(j)
    \/ \E j \in JobIds : JobFinishOk(j)
    \/ \E j \in JobIds : JobFinishErr(j)

(***************************************************************************)
(* The code-grant listener (auth/mod.rs, authenticate; auth/start.rs)      *)
(***************************************************************************)
Redirects == 1..MaxRedirects

\* The token file before the listener runs: absent, or an older token.
LsOldFiles == {<<>>, <<0>>}

\* The token the exchange of callback h returns.
ExchangedToken(h) == h

\* A handler that has not returned yet.
LsInFlight == {h \in Redirects : lsHandler[h] \in {"exchanging", "storing", "stored"}}

LsBase ==
    /\ lsCnx = FALSE
    /\ lsHandler = [h \in Redirects |-> "none"]
    /\ lsCallbacks = 0
    /\ lsStores = <<>>
    /\ lsCancelledBy = {}

LsPinned == LsBase /\ lsPc = "idle" /\ lsFile = <<>>

\* let cnx = CancellationToken::new(); ...
LsInit == LsBase /\ lsPc = "bind" /\ lsFile \in LsOldFiles

\* TcpListener::bind(..).await, then axum::serve(listener, app)
LsBind ==
    /\ lsPc = "bind"
    /\ lsPc' = "serving"
    /\ UNCHANGED <<lsCnx, lsFile, lsHandler, lsCallbacks, lsStores, lsCancelledBy>>
    /\ UNCHANGED NotListener

\* TcpListener::bind(..).await.with_context(..)? fails
LsBindErr ==
    /\ lsPc = "bind"
    /\ lsPc' = "err"
    /\ UNCHANGED <<lsCnx, lsFile, lsHandler, lsCallbacks, lsStores, lsCancelledBy>>
    /\ UNCHANGED NotListener

\* GET /start-redirect reaches Start::redirect: a query without `code` is
\* rejected by the Query extractor, one with a code enters handle_redirect.
LsRedirect(withCode) ==
    /\ lsPc = "serving"
    /\ lsCallbacks < MaxRedirects
    /\ lsCallbacks' = lsCallbacks + 1
    /\ lsHandler' = [lsHandler EXCEPT ![lsCallbacks + 1] =
                        IF withCode THEN "exchanging" ELSE "rejected"]
    /\ UNCHANGED <<lsPc, lsCnx, lsFile, lsStores, lsCancelledBy>>
    /\ UNCHANGED NotListener

\* Authenticator::authenticate: fetch_access_token(..).await? and from_response
\* succeed.
LsExchangeOk(h) ==
    /\ lsHandler[h] = "exchanging"
    /\ lsHandler' = [lsHandler EXCEPT ![h] = "storing"]
    /\ UNCHANGED <<lsPc, lsCnx, lsFile, lsCallbacks, lsStores, lsCancelledBy>>
    /\ UNCHANGED NotListener

\* A handler that cancels the token although its exchange failed.
LsExchangeErr_Cancels(h) ==
    /\ lsHandler[h] = "exchanging"
    /\ lsHandler' = [lsHandler EXCEPT ![h] = "exchange_failed"]
    /\ lsCnx' = TRUE
    /\ lsCancelledBy' = lsCancelledBy \cup {h}
    /\ UNCHANGED <<lsPc, lsFile, lsCallbacks, lsStores>>
    /\ UNCHANGED NotListener

\* self.redirect_uri()? or the exchange fails: handle_redirect returns the
\* error, rendered as a response.
LsExchangeErr(h) ==
    /\ lsHandler[h] = "exchanging"
    /\ lsHandler' = [lsHandler EXCEPT ![h] = "exchange_failed"]
    /\ UNCHANGED <<lsPc, lsCnx, lsFile, lsCallbacks, lsStores, lsCancelledBy>>
    /\ UNCHANGED NotListener

\* self.write_auth_data(&state).await succeeds.
LsStoreOk(h) ==
    /\ lsHandler[h] = "storing"
    /\ lsHandler' = [lsHandler EXCEPT ![h] = "stored"]
    /\ lsFile' = <<ExchangedToken(h)>>
    /\ lsStores' = Append(lsStores, h)
    /\ UNCHANGED <<lsPc, lsCnx, lsCallbacks, lsCancelledBy>>
    /\ UNCHANGED NotListener

\* self.write_auth_data(&state).await? fails.
LsStoreErr(h) ==
    /\ lsHandler[h] = "storing"
    /\ lsHandler' = [lsHandler EXCEPT ![h] = "store_failed"]
    /\ UNCHANGED <<lsPc, lsCnx, lsFile, lsCallbacks, lsStores, lsCancelledBy>>
    /\ UNCHANGED NotListener

\* self.cnx.cancel(); Ok("Done!")
LsCancel(h) ==
    /\ lsHandler[h] = "stored"
    /\ lsHandler' = [lsHandler EXCEPT ![h] = "done_ok"]
    /\ lsCnx' = TRUE
    /\ lsCancelledBy' = lsCancelledBy \cup {h}
    /\ UNCHANGED <<lsPc, lsFile, lsCallbacks, lsStores>>
    /\ UNCHANGED NotListener

\* The browser closes the connection and the server drops the handler's future
\* at the await it is suspended in. The blocking write of write_auth_data is
\* not cancelled with it: it has happened or it has not.
LsDisconnect(h, written) ==
    /\ h \in LsInFlight
    /\ written => lsHandler[h] = "storing"
    /\ lsHandler' = [lsHandler EXCEPT ![h] = "dropped"]
    /\ IF written
       THEN /\ lsFile' = <<ExchangedToken(h)>>
            /\ lsStores' = Append(lsStores, h)
       ELSE UNCHANGED <<lsFile, lsStores>>
    /\ UNCHANGED <<lsPc, lsCnx, lsCallbacks, lsCancelledBy>>
    /\ UNCHANGED NotListener

\* with_graceful_shutdown(cnx.cancelled_owned()): the serve loop sees the
\* cancellation and stops accepting.
LsShutdown ==
    /\ lsPc = "serving"
    /\ lsCnx
    /\ lsPc' = "draining"
    /\ UNCHANGED <<lsCnx, lsFile, lsHandler, lsCallbacks, lsStores, lsCancelledBy>>
    /\ UNCHANGED NotListener

\* ... and returns once the connections in flight are done; Ok(())
LsReturn ==
    /\ lsPc = "draining"
    /\ LsInFlight = {}
    /\ lsPc' = "ok"
    /\ UNCHANGED <<lsCnx, lsFile, lsHandler, lsCallbacks, lsStores, lsCancelledBy>>
    /\ UNCHANGED NotListener

LsNext ==
    \/ LsBind
    \/ LsBindErr
    \/ \E c \in BOOLEAN : LsRedirect(c)
    \/ \E h \in Redirects : LsExchangeOk(h)
    \/ \E h \in Redirects : LsExchangeErr(h)
    \/ \E h \in Redirects : LsStoreOk(h)
    \/ \E h \in Redirects : LsStoreErr(h)
    \/ \E h \in Redirects : LsCancel(h)
    \/ \E h \in Redirects, w \in BOOLEAN : LsDisconnect(h, w)
    \/ LsShutdown
    \/ LsReturn

(***************************************************************************)
(* Specifications.                                                         *)
(***************************************************************************)
\* A pool that nobody touches.
PoolPinned == PoolInit /\ concurrency = 1

\* The job pool alone.
PoolSpecInit == PoolInit /\ AuthPinned /\ GcPinned /\ WfPinned /\ MonthsPinned /\ RangePinned /\ GsPinned /\ TlPinned /\ CnPinned /\ HcPinned /\ SyPinned /\ LsPinned
PoolSpec == PoolSpecInit /\ [][PoolNext]_vars

\* The Authenticator alone.
AuthSpecInit == PoolPinned /\ AuthInit /\ GcPinned /\ WfPinned /\ MonthsPinned /\ RangePinned /\ GsPinned /\ TlPinned /\ CnPinned /\ HcPinned /\ SyPinned /\ LsPinned
AuthSpec == AuthSpecInit /\ [][AuthNext]_vars

\* The Authenticator with its code grant.
GrantSpec == AuthSpecInit /\ [][GrantNext]_vars

\* The gocardless token code alone.
GcSpecInit == PoolPinned /\ AuthBase(<<>>) /\ GcInit /\ WfPinned /\ MonthsPinned /\ RangePinned /\ GsPinned /\ TlPinned /\ CnPinned /\ HcPinned /\ SyPinned /\ LsPinned
GcSpec == GcSpecInit /\ [][GcNext]_vars

\* One call of write_jsons_atomically.
WjSpecInit == PoolPinned /\ AuthPinned /\ GcPinned /\ WjInit /\ MonthsPinned /\ RangePinned /\ GsPinned /\ TlPinned /\ CnPinned /\ HcPinned /\ SyPinned /\ LsPinned
WjSpec == WjSpecInit /\ [][WjNext]_vars

\* One call of the gocardless write_file.
WfSpecInit == PoolPinned /\ AuthPinned /\ GcPinned /\ WfInit /\ MonthsPinned /\ RangePinned /\ GsPinned /\ TlPinned /\ CnPinned /\ HcPinned /\ SyPinned /\ LsPinned
WfSpec == WfSpecInit /\ [][WfNext]_vars

\* One call of months() and the loop that consumes it.
MonthsSpecInit == PoolPinned /\ AuthPinned /\ GcPinned /\ WfPinned /\ MonthsInit /\ RangePinned /\ GsPinned /\ TlPinned /\ CnPinned /\ HcPinned /\ SyPinned /\ LsPinned
MonthsSpec == MonthsSpecInit /\ [][MonthsNext]_vars

\* The range computation of the gocardless sync.
RangeSpecInit ==
    PoolPinned /\ AuthPinned /\ GcPinned /\ WfPinned /\ MonthsPinned /\ RangeInit
        /\ GsPinned /\ TlPinned /\ CnPinned /\ HcPinned /\ SyPinned /\ LsPinned
RangeSpec == RangeSpecInit /\ [][RangeNext]_vars

\* A run of the gocardless sync.
GsSpecInit ==
    PoolPinned /\ AuthPinned /\ GcPinned /\ WfPinned /\ MonthsPinned /\ GsInit
        /\ TlPinned /\ CnPinned /\ HcPinned /\ SyPinned /\ LsPinned
GsSpec == GsSpecInit /\ [][GsNext]_vars

\* A run of the TrueLayer sync.
TlSpecInit ==
    PoolPinned /\ AuthPinned /\ GcPinned /\ WfPinned /\ MonthsPinned
        /\ RangePinned /\ GsPinned /\ TlInit /\ CnPinned /\ HcPinned /\ SyPinned /\ LsPinned
TlSpec == TlSpecInit /\ [][TlNext]_vars

\* The standing-orders and direct-debits jobs of one account.
SoSpecInit ==
    PoolPinned /\ AuthPinned /\ GcPinned /\ WfPinned /\ MonthsPinned
        /\ RangePinned /\ GsPinned /\ SoInit /\ CnPinned /\ HcPinned /\ SyPinned /\ LsPinned
SoSpec == SoSpecInit /\ [][SoNext]_vars

\* The connect command; the server that was told to shut down does so.
CnSpecInit ==
    PoolPinned /\ AuthPinned /\ GcPinned /\ WfPinned /\ MonthsPinned
        /\ RangePinned /\ GsPinned /\ TlPinned /\ CnInit /\ HcPinned /\ SyPinned /\ LsPinned
CnSpec == CnSpecInit /\ [][CnNext]_vars
CnFairSpec == CnSpec /\ WF_vars(CnShutdown)

\* One get or post of the gocardless client.
HcSpecInit ==
    PoolPinned /\ AuthPinned /\ GcPinned /\ WfPinned /\ MonthsPinned
        /\ RangePinned /\ GsPinned /\ TlPinned /\ CnPinned /\ HcInit /\ SyPinned /\ LsPinned
HcSpec == HcSpecInit /\ [][HcNext]_vars

\* One run of the sync command.
SySpecInit ==
    /\ SyInit /\ AuthPinned /\ GcPinned /\ WfPinned /\ MonthsPinned
    /\ RangePinned /\ GsPinned /\ TlPinned /\ CnPinned /\ HcPinned /\ LsPinned
SySpec == SySpecInit /\ [][SyNext]_vars

\* One run of the code-grant listener.
LsSpecInit ==
    /\ PoolPinned /\ AuthPinned /\ GcPinned /\ WfPinned /\ MonthsPinned
    /\ RangePinned /\ GsPinned /\ TlPinned /\ CnPinned /\ HcPinned /\ SyPinned
    /\ LsInit
LsSpec == LsSpecInit /\ [][LsNext]_vars

\* JobFinishOk as the only fair job step: every job body that does not fail
\* finishes; every handle is dropped; the run future is polled to completion.
PoolFairSpec ==
    /\ PoolSpecInit
    /\ [][PoolNext]_vars
    /\ WF_vars(PoolStep)
    /\ WF_vars(DropRootHandle)
    /\ \A a \in Actors : WF_vars(SpawnCount(a))
    /\ \A j \in JobIds : WF_vars(JobFinishOk(j))

\* Only the run future is scheduled fairly: job bodies may hang for ever and
\* handles may be kept for ever.
PoolRunFairSpec ==
    /\ PoolSpecInit
    /\ [][PoolNext]_vars
    /\ WF_vars(PoolStep)

(***************************************************************************)
(* Properties of the job pool.                                             *)
(***************************************************************************)
Created == 1..nJobs
AnyJobFailed == \E j \in JobIds : status[j] \in {"done_err", "reaped_err"}
RunReturned == pcRun \in {"ok", "err"}

\* C1: the in-flight set (spawned and not yet reaped) never holds more than
\* `concurrency` jobs, and a job is pulled from the channel only while the
\* in-flight set is smaller than `concurrency` and the channel has not closed.
PullStepWithinCap ==
    tasks' \ tasks # {} =>
        /\ Cardinality(tasks) < concurrency
        /\ ~has_terminated
        /\ Cardinality(tasks' \ tasks) = 1

C1_InFlightBounded ==
    /\ [](Cardinality(tasks) <= concurrency)
    /\ [][PullStepWithinCap]_vars

\* The cap is reached with more work waiting in the channel.
C1_Witness ==
    /\ concurrency = 2
    /\ Cardinality(tasks) = 2
    /\ queue # <<>>
    /\ \E j \in tasks : status[j] = "running"

\* C2: when run has returned Ok, no JobHandle clone is left, the channel is
\* empty, the in-flight set is empty, and every job ever sent on the channel
\* (children of running jobs included) has been run to completion and reaped.
C2_OkOnlyWhenDrained ==
    pcRun = "ok" =>
        /\ ~rootHandle
        /\ \A j \in JobIds : ~jobHandle[j]
        /\ queue = <<>>
        /\ tasks = {}
        /\ \A j \in Created : status[j] = "reaped_ok"
        /\ countPending = {}

\* Job 1 spawned job 2, which spawned job 3, and run returned Ok.
C2_Witness ==
    /\ pcRun = "ok"
    /\ nJobs = 3
    /\ parent[1] = Main /\ parent[2] = 1 /\ parent[3] = 2

\* C3: with concurrency >= 1, once run is polled, if no job fails (every job
\* body finishes, every handle is dropped: the fairness of PoolFairSpec) run
\* eventually returns Ok.
C3_RunTerminates ==
    (concurrency >= 1 /\ pcRun = "loop") ~> (pcRun = "ok" \/ AnyJobFailed)

\* concurrency = 1, a running job spawned a child, and run returned Ok.
C3_Witness ==
    /\ pcRun = "ok"
    /\ concurrency = 1
    /\ \E j \in Created : parent[j] # Main

\* C4: run goes on looping only while no failed job has been reaped; when it
\* returns an error it is the error of the one failed job it reaped; and once
\* it has returned the error no queued job is started.
NothingStartedAfterError ==
    pcRun \in {"unwinding", "err"} =>
        /\ stats'.jobs_started = stats.jobs_started
        /\ runErr' = runErr
        /\ pcRun' \in {"unwinding", "err"}
        /\ \A j \in JobIds :
             status[j] = "queued" => status'[j] \in {"queued", "dropped"}

C4_FirstErrorReturned ==
    /\ [](pcRun \in {"new", "loop", "select", "ok", "panicked", "dropped"} =>
            /\ runErr = 0
            /\ \A j \in JobIds : status[j] # "reaped_err")
    /\ [](pcRun \in {"unwinding", "err"} =>
            /\ runErr \in Created
            /\ status[runErr] = "reaped_err"
            /\ \A j \in JobIds : status[j] = "reaped_err" => j = runErr)
    /\ [][NothingStartedAfterError]_vars

\* run returned an error while a job was still queued: it was dropped unstarted.
C4_Witness ==
    /\ pcRun = "err"
    /\ \E j \in Created : status[j] = "dropped"

\* C5: a failed task in the in-flight set leads to run returning the error,
\* whether or not the other in-flight jobs ever complete (no fairness for job
\* bodies in PoolRunFairSpec); after the return nothing is in flight.
C5_ErrorDoesNotWait ==
    /\ (\E j \in tasks : status[j] = "done_err") ~> (pcRun = "err")
    /\ [](pcRun \in {"unwinding", "err"} =>
            /\ tasks = {}
            /\ \A j \in JobIds : status[j] # "running")

\* run returned an error and an unfinished in-flight job was aborted.
C5_Witness ==
    /\ pcRun = "err"
    /\ \E j \in Created : status[j] = "aborted"

\* C6: a spawn call fails exactly when the receiver has been dropped, which is
\* exactly when run has returned (or panicked) or the pool was dropped; a
\* failed spawn changes neither the queue nor the statistics, nor leaves an
\* increment of jobs_submitted pending.
SpawnStepResult ==
    /\ nJobs' # nJobs => rxAlive /\ lastSpawn' = "ok"
    /\ (lastSpawn' = "ok" /\ lastSpawn # "ok") => rxAlive /\ nJobs' = nJobs + 1
    /\ (lastSpawn' = "err" /\ lastSpawn # "err") =>
          /\ ~rxAlive
          /\ stats' = stats
          /\ queue' = queue
          /\ countPending' = countPending

C6_SpawnFailsIffPoolGone ==
    /\ [](rxAlive <=> pcRun \in {"new", "loop", "select", "unwinding"})
    /\ [][SpawnStepResult]_vars

\* A spawn failed after run returned, after earlier spawns had succeeded with
\* a job already waiting in the queue.
C6_Witness ==
    /\ lastSpawn = "err"
    /\ RunReturned
    /\ stats.jobs_submitted >= 2

(***************************************************************************)
(* Properties of the Authenticator.                                        *)
(***************************************************************************)
\* The call of p sent a refresh request to the token endpoint.
SentRefresh(p) ==
    \/ pcCall[p] \in {"refreshing", "writing"}
    \/ ret[p].kind \in {"err_refresh", "err_write"}
    \/ ret[p].via = "refresh"

HoldingLock == {p \in Callers : pcCall[p] \in {"reading", "refreshing", "writing"}}

\* C7, as claimed, and read in its favour (a refresh that failed, or that
\* was answered with a lifetime of 0, is not counted): of two access_token()
\* calls that ran concurrently, at most one refreshes the token; the other
\* returns what the first one cached.
C7_OneRefreshAmongConcurrent ==
    \A p \in Callers, q \in Callers :
        (p # q /\ {p, q} \in overlapped) =>
            ~(/\ ret[p].via = "refresh" /\ respExpiresIn[p] > 0
              /\ ret[q].via = "refresh" /\ respExpiresIn[q] > 0)

\* A caller that takes the lock while the cache holds a token that is not
\* expired returns that token and sends nothing.
CachedTokenReused ==
    \A p \in Callers :
        (/\ pcCall[p] = "waiting"
         /\ pcCall'[p] # "waiting"
         /\ cached_auth_data # <<>>
         /\ now < cached_auth_data[1].expires_at)
        => /\ pcCall'[p] = "done"
           /\ ret'[p] = [kind |-> "ok", via |-> "cache", tok |-> cached_auth_data]
           /\ UNCHANGED <<tokenFile, cached_auth_data, nextAccess>>

\* C7, amended: at most one caller is between taking the lock and returning,
\* so at most one refresh is in flight; a successful refresh leaves its token
\* in the cache and in the file, and a caller that takes the lock while the
\* cached token is unexpired returns it without refreshing.
C7_RefreshExclusive ==
    /\ [](Cardinality(HoldingLock) <= 1)
    /\ [](\A p \in Callers : pcCall[p] \in {"reading", "refreshing", "writing"}
                                => lockHolder = p)
    /\ [][CachedTokenReused]_vars

\* Two concurrent callers: one refreshed, the other returned the token the
\* first one cached.
C7_Witness ==
    \E p \in Callers, q \in Callers :
        /\ {p, q} \in overlapped /\ p # q
        /\ ret[p].kind = "ok" /\ ret[p].via = "refresh"
        /\ ret[q].kind = "ok" /\ ret[q].via = "cache"
        /\ ret[q].tok = ret[p].tok

\* C8, as claimed: every token returned with Ok expires later than the
\* instant the call sampled.
C8_ReturnedUnexpired ==
    \A p \in Callers :
        ret[p].kind = "ok" => at[p] < ret[p].tok[1].expires_at

\* C8, amended: a token returned from the cache or from the file expires
\* later than the instant the call sampled; a token returned after a refresh
\* has expires_at = that instant + the expires_in of the response, and so is
\* unexpired exactly when that expires_in is positive.
C8_ReturnedUnexpiredUnlessBornExpired ==
    \A p \in Callers :
        ret[p].kind = "ok" =>
            IF ret[p].via = "refresh"
            THEN /\ ret[p].tok[1].expires_at = at[p] + respExpiresIn[p]
                 /\ (at[p] < ret[p].tok[1].expires_at <=> respExpiresIn[p] > 0)
            ELSE at[p] < ret[p].tok[1].expires_at

\* One caller returned a refreshed token with a positive lifetime, another a
\* token taken from the cache, a third way is a token read from the file.
C8_Witness ==
    \E p \in Callers, q \in Callers :
        /\ ret[p].kind = "ok" /\ ret[p].via = "refresh" /\ respExpiresIn[p] > 0
        /\ ret[q].kind = "ok" /\ ret[q].via \in {"cache", "file"}

\* A call that finds no token file returns the no-token error at once.
MissingFileStep ==
    \A p \in Callers :
        (pcCall[p] = "reading" /\ pcCall'[p] # "reading" /\ tokenFile = <<>>)
        => /\ pcCall'[p] = "done"
           /\ ret'[p] = [kind |-> "err_no_token", via |-> "none", tok |-> <<>>]
           /\ tokenFile' = <<>>
           /\ cached_auth_data' = <<>>
           /\ lockHolder' = 0
           /\ nextAccess' = nextAccess

\* C10: with no token file and an empty cache, access_token returns the
\* no-token error, sends no request (it never reaches the refresh), creates
\* no file and leaves the cache empty.
C10_NoFileNoToken ==
    /\ [](tokenFile = <<>> => cached_auth_data = <<>>)
    /\ [](\A p \in Callers : ret[p].kind = "err_no_token" => ~SentRefresh(p))
    /\ [][MissingFileStep]_vars

\* A call failed for want of a token file; there is still no file, no cache.
C10_Witness ==
    \E p \in Callers :
        /\ ret[p].kind = "err_no_token"
        /\ tokenFile = <<>>
        /\ cached_auth_data = <<>>

(***************************************************************************)
(* Properties of the gocardless token code.                                *)
(***************************************************************************)
RefreshOnlyWhileRefreshValid ==
    gcRefreshReqs' # gcRefreshReqs =>
        (gcFile # <<>> /\ now < gcFile[1].refresh_expires)

\* C9, as claimed: a refresh request is sent only while the refresh
\* credential of the stored token is unexpired (now < refresh_expires).
C9_NoRefreshWithExpiredRefresh == [][RefreshOnlyWhileRefreshValid]_vars

(***************************************************************************)
(* Properties of grants and refreshes.                                     *)
(***************************************************************************)
\* The refresh step of access_token (update_from_response on the token that
\* was read) leaves the refresh string as it was.
RefreshKeepsRefreshString ==
    \A p \in Callers :
        (pcCall[p] = "refreshing" /\ pcCall'[p] = "writing")
        => data'[p][1].refresh_token = data[p][1].refresh_token

\* C11, as claimed: a refresh replaces only the access fields, so the token
\* that a refresh builds, and then stores, carries the refresh string of the
\* token it was built from (that of the original grant).
C11_RefreshPreservesRefreshString == [][RefreshKeepsRefreshString]_vars

\* The step in which authenticate() stores the granted token while the cache
\* holds an older token that has not expired.
AuthenticateUpdatesCache ==
    (/\ pcAuth = "writing"
     /\ tokenFile' # tokenFile
     /\ cached_auth_data # <<>>
     /\ ~IsExpired(cached_auth_data[1], now))
    => cached_auth_data' = tokenFile'

\* C12, as claimed: when authenticate succeeds the cache holds the token just
\* granted, the one written to the token file, even when an older unexpired
\* token was cached before.
C12_AuthenticateRefreshesCache == [][AuthenticateUpdatesCache]_vars

\* The refresh of a stored token that is in order (access_expires <=
\* refresh_expires) and whose refresh credential has not expired builds a
\* token that is in order.
RefreshKeepsExpiryOrder ==
    (/\ gcPc = "refreshing"
     /\ gcPc' = "store_refreshed"
     /\ gcTok[1].access_expires <= gcTok[1].refresh_expires
     /\ gcRefreshAt < gcTok[1].refresh_expires)
    => gcTok'[1].access_expires <= gcTok'[1].refresh_expires

\* C13, as claimed: every token built by a refresh (Token::refreshed), and so
\* every token stored afterwards, has access_expires <= refresh_expires.
C13_AccessExpiresBeforeRefresh == [][RefreshKeepsExpiryOrder]_vars

\* C14, as claimed: a run of AuthArgs::load_token that ends without having
\* called token/new (it returned the stored token, or failed in the refresh)
\* had a stored token with now < refresh_expires; with no token, or with an
\* expired refresh credential, the run goes through token/new.
C14_TokenNewUnlessRefreshValid ==
    (gcPc = "idle" /\ gcResult \in {"ok", "err_refresh"})
    => (gcTok # <<>> /\ gcAuthedAt < gcTok[1].refresh_expires)

\* C15, as claimed: at every step of a store the token file holds a complete
\* token (the previous one or the new one), or does not exist yet.
C15_TokenFileNeverTorn == ~gcTorn

(***************************************************************************)
(* Properties of the files of the mirror.                                  *)
(***************************************************************************)
\* The file that holds the records of P, one per line.
RECURSIVE Encode(_)
Encode(P) ==
    IF P = <<>> THEN <<>> ELSE ToWriter(Head(P)) \o <<LF>> \o Encode(Tail(P))

\* C16: whatever step write_jsons_atomically is at, and however it ends, the
\* file at `path` is what it was before the call (possibly no file) or holds
\* all the records; it holds the records once the call has returned Ok, and
\* is untouched when the call fails; the temporary file is in a directory
\* that exists, and is gone when the call returns.
C16_PathOldOrNew ==
    /\ wfPath \in {wfOld, <<Encode(wfData)>>}
    /\ wfPc = "ok" => wfPath = <<Encode(wfData)>>
    /\ wfPc \in {"err", "killed", "panicked"} => wfPath = wfOld
    /\ wfTmp # <<>> => wfDir
    /\ wfPc \in {"ok", "err", "panicked"} => wfTmp = <<>>

\* The call replaced an older file by a file holding all the records.
C16_Witness ==
    /\ wfPc = "ok"
    /\ wfOld # <<>>
    /\ Len(wfData) = MaxRecords
    /\ wfPath # wfOld

\* C17, as claimed: the file that write_file writes is never observable empty
\* or partly written: it is absent, or what it was before the call, or holds
\* the whole serialized value.
C17_WriteFileOldOrNew ==
    wfPath \in {<<>>, wfOld, <<ToStringPretty(wfData[1])>>}

\* The number of line feeds in a file.
RECURSIVE CountLF(_)
CountLF(f) ==
    IF f = <<>> THEN 0 ELSE (IF Head(f) = LF THEN 1 ELSE 0) + CountLF(Tail(f))

\* Reading a file line by line: the pieces between line feeds (a last piece
\* without its line feed is a line too).
RECURSIVE SplitLines(_, _)
SplitLines(f, cur) ==
    IF f = <<>> THEN (IF cur = <<>> THEN <<>> ELSE <<cur>>)
    ELSE IF Head(f) = LF THEN <<cur>> \o SplitLines(Tail(f), <<>>)
    ELSE SplitLines(Tail(f), Append(cur, Head(f)))

Lines(f) == SplitLines(f, <<>>)

\* The characters of a JSON string body.
RECURSIVE Unescape(_)
Unescape(w) ==
    IF w = <<>> THEN <<>>
    ELSE IF Head(w) = "bs"
    THEN (IF Len(w) >= 2
          THEN <<(IF w[2] = "n" THEN LF ELSE w[2])>> \o Unescape(Tail(Tail(w)))
          ELSE <<"invalid">>)
    ELSE <<Head(w)>> \o Unescape(Tail(w))

\* Parsing one line as a JSON string.
FromStr(line) ==
    IF Len(line) >= 2 /\ line[1] = "q" /\ line[Len(line)] = "q"
    THEN Unescape(SubSeq(line, 2, Len(line) - 1))
    ELSE <<"invalid">>

ReadJsons(f) == [i \in 1..Len(Lines(f)) |-> FromStr(Lines(f)[i])]

\* C18: the assertion on the serialized record never fails, and the file
\* written for the records P has |P| line feeds and |P| lines, line i is the
\* serialization of P[i], reading the lines back gives P in order, and no
\* records give an empty file.
C18_JsonsRoundTrip ==
    /\ wfPc # "panicked"
    /\ wfPc = "ok" =>
         LET f == wfPath[1] IN
         /\ CountLF(f) = Len(wfData)
         /\ Len(Lines(f)) = Len(wfData)
         /\ \A i \in 1..Len(wfData) : Lines(f)[i] = ToWriter(wfData[i])
         /\ ReadJsons(f) = wfData
         /\ (wfData = <<>> => f = <<>>)
         /\ (f # <<>> => f[Len(f)] = LF)

\* A file was written whose records include a string holding a line feed.
C18_Witness ==
    /\ wfPc = "ok"
    /\ Len(wfData) = MaxRecords
    /\ \E i \in 1..Len(wfData) : Contains(wfData[i], LF)
    /\ ReadJsons(wfPath[1]) = wfData

(***************************************************************************)
(* Properties of months().                                                 *)
(***************************************************************************)
\* The dates of the bucket a..=b.
BucketDates(bk) == bk[1]..bk[2]

\* C19: for any period, start after end included, once the iterator is
\* exhausted every date of [start, end] lies in exactly one bucket, each
\* bucket begins the day after the one before it ends (no gap, no overlap),
\* and no bucket ends after `end`.
C19_BucketsCoverPeriod ==
    mPc = "done" =>
        /\ \A d \in period[1]..period[2] :
             Cardinality({i \in 1..Len(emitted) : d \in BucketDates(emitted[i])}) = 1
        /\ \A i \in 1..(Len(emitted) - 1) : emitted[i + 1][1] = emitted[i][2] + 1
        /\ \A i \in 1..Len(emitted) : emitted[i][2] <= period[2]

\* A period from the middle of one month to the middle of a later one, with
\* a whole month in between, has been cut into buckets.
C19_Witness ==
    /\ mPc = "done"
    /\ Len(emitted) >= 3
    /\ Day(period[1]) > 1
    /\ MonthOf(period[2]) > MonthOf(period[1])
    /\ period[2] < FirstOf(MonthOf(period[2]) + 1) - 1

\* C20: for start <= end the buckets are, in ascending order, one per
\* calendar month from start's month to end's month; bucket i begins on the
\* first day of its month and ends on the last day of that month or on
\* `end`, whichever is earlier; so no bucket is empty and together they are
\* exactly the dates from the first day of start's month to `end`.
C20_OneBucketPerMonth ==
    (mPc = "done" /\ period[1] <= period[2]) =>
        LET m0 == MonthOf(period[1])
            m1 == MonthOf(period[2])
        IN /\ Len(emitted) = m1 - m0 + 1
           /\ \A i \in 1..Len(emitted) :
                /\ emitted[i][1] = FirstOf(m0 + i - 1)
                /\ emitted[i][2] = Min(FirstOf(m0 + i) - 1, period[2])
                /\ emitted[i][1] <= emitted[i][2]
           /\ UNION {BucketDates(emitted[i]) : i \in 1..Len(emitted)}
                = FirstOf(m0)..period[2]

\* A period that ends on the first day of a month, MaxMonths months long.
C20_Witness ==
    /\ mPc = "done"
    /\ period[1] <= period[2]
    /\ Len(emitted) = MaxMonths
    /\ Day(period[2]) = 1
    /\ emitted[Len(emitted)] = <<period[2], period[2]>>

(***************************************************************************)
(* Properties of the gocardless sync.                                      *)
(***************************************************************************)
\* C21: once the range is computed, end = today, and start is today minus
\* history_days when that is the first of a month, otherwise the first day
\* of the month after it (for the 29th to the 31st too); history_days = 45
\* on 2024-03-10 gives 2024-02-01 .. 2024-03-10.
C21_StartAdvancedToNextFirst ==
    rPc = "scan" =>
        LET raw == today - history_days IN
        /\ end_date = today
        /\ start_date = (IF Day(raw) = 1 THEN raw ELSE FirstOf(MonthOf(raw) + 1))
        /\ Day(start_date) = 1
        /\ (today = FirstOf(3) + 9 /\ history_days = 45)
              => (start_date = FirstOf(2) /\ end_date = FirstOf(3) + 9)

\* The example: 45 days back from 2024-03-10 is 2024-01-25, advanced to
\* 2024-02-01.
C21_Witness ==
    /\ rPc = "scan"
    /\ today = FirstOf(3) + 9
    /\ history_days = 45
    /\ today - history_days = FirstOf(1) + 24
    /\ start_date = FirstOf(2)

\* C22: a run reads the requisition before anything else of the API, and
\* unless its status is Linked the run fails with no request sent to an
\* account endpoint and the output directory as it was.
C22_NotLinkedTouchesNothing ==
    [][/\ (gsCalls' # gsCalls \/ gsFiles' # gsFiles)
            => (requisition # NoRequisition /\ IsLinked(requisition))
       /\ (rPc = "check" /\ ~IsLinked(requisition))
            => (/\ rPc' = "failed"
                /\ gsResult' # "ok"
                /\ gsCalls' = 0
                /\ gsWrote' = {}
                /\ gsFiles' = gsFiles)
       /\ (rPc = "failed" /\ gsResult = "err_not_linked")
            => UNCHANGED <<gsCalls, gsFiles>>]_vars

\* A run over the earlier run's directory fails on a requisition that is
\* not linked.
C22_Witness ==
    /\ rPc = "failed"
    /\ gsResult = "err_not_linked"
    /\ requisition.status = "Expired"
    /\ requisition.accounts # <<>>
    /\ gsFiles = PreviousRunDir
    /\ gsCalls = 0

\* The first present of booking_date, the date of booking_date_time and
\* value_date, stated apart from the code's Option chain.
FirstPresentDate(tx) ==
    IF tx.booking_date # None THEN tx.booking_date
    ELSE IF tx.booking_date_time # None THEN tx.booking_date_time \div DayParts
    ELSE tx.value_date

ExpectedFile(tx) ==
    IF FirstPresentDate(tx) = None THEN "undated.json"
    ELSE YmJson[MonthOf(FirstPresentDate(tx))]

\* How often tx occurs in a list.
Occurrences(list, tx) == Cardinality({i \in DOMAIN list : list[i] = tx})

\* The bucket files the run has written for the account.
BucketFiles ==
    {q \in gsWrote :
        /\ q[1] = account_id
        /\ q[2] \notin {"account-details.json", "balances.json"}}

\* C27: when list_account has written its buckets, every booked and every
\* pending transaction of the response is in exactly one of the written
\* files, once, in its own list, and that file is the one of the month of
\* its first present date among booking_date, booking_date_time's date and
\* value_date, or undated.json when it has none; the files written are
\* exactly those of the non-empty buckets.
C27_EveryTransactionInOneBucket ==
    (rPc \in {"buckets", "scan", "done"} /\ account_id # "none"
        /\ DOMAIN by_month = {}) =>
        /\ \A i \in DOMAIN transactions.booked :
            LET tx == transactions.booked[i] IN
            /\ Join(account_id, ExpectedFile(tx)) \in BucketFiles
            /\ \A q \in BucketFiles :
                /\ Occurrences(gsFiles[q].booked, tx)
                      = (IF q[2] = ExpectedFile(tx) THEN 1 ELSE 0)
                /\ Occurrences(gsFiles[q].pending, tx) = 0
        /\ \A i \in DOMAIN transactions.pending :
            LET tx == transactions.pending[i] IN
            /\ Join(account_id, ExpectedFile(tx)) \in BucketFiles
            /\ \A q \in BucketFiles :
                /\ Occurrences(gsFiles[q].pending, tx)
                      = (IF q[2] = ExpectedFile(tx) THEN 1 ELSE 0)
                /\ Occurrences(gsFiles[q].booked, tx) = 0
        /\ \A q \in BucketFiles :
            /\ Len(gsFiles[q].booked) + Len(gsFiles[q].pending) > 0
            /\ \A i \in DOMAIN gsFiles[q].booked :
                   Occurrences(transactions.booked, gsFiles[q].booked[i]) = 1
            /\ \A i \in DOMAIN gsFiles[q].pending :
                   Occurrences(transactions.pending, gsFiles[q].pending[i]) = 1

\* A finished run whose response had a booked transaction with no
\* booking_date, a booking_date_time in January and a value_date in
\* February, and a pending transaction with no date at all.
C27_Witness ==
    /\ rPc = "done"
    /\ gsResult = "ok"
    /\ Len(transactions.booked) = 1
    /\ Len(transactions.pending) = 1
    /\ transactions.booked[1].booking_date = None
    /\ transactions.booked[1].booking_date_time # None
    /\ transactions.booked[1].value_date = FirstOf(2) + 2
    /\ FirstPresentDate(transactions.pending[1]) = None
    /\ BucketFiles = {Join("acc1", "2024-01.json"), Join("acc1", "undated.json")}

(***************************************************************************)
(* Properties of the TrueLayer sync.                                       *)
(***************************************************************************)
\* The file of a month job, stated apart from PathOf: the directory of the
\* account or card, and the year and month of the first day of the bucket.
MonthFile(job) ==
    IF job.kind = "account_tx"
    THEN <<"accounts", AccountDirName(job.account),
           YmJsons[MonthOf(job.month[1])]>>
    ELSE <<"cards", <<job.account.account_id>>, YmJsons[MonthOf(job.month[1])]>>

\* C23: a month job (account_tx, card_tx) that gets an empty list returns
\* Ok with the directory as it was; one that gets a non-empty list changes
\* the directory in exactly one path, the file named after the year and
\* month of the bucket's first day, which then holds the list.
C23_EmptyMonthWritesNothing ==
    [][\A e \in tlRan' \ tlRan :
          e[1].kind \in TxKinds =>
            /\ ~tlFailed'
            /\ Day(e[1].month[1]) = 1
            /\ IF e[2] = <<>>
               THEN tlFiles' = tlFiles
               ELSE /\ DOMAIN tlFiles' = DOMAIN tlFiles \cup {MonthFile(e[1])}
                    /\ \A q \in DOMAIN tlFiles :
                          q # MonthFile(e[1]) => tlFiles'[q] = tlFiles[q]
                    /\ tlFiles'[MonthFile(e[1])] = Reverse(e[2])]_vars

\* Over the earlier run's directory, the January job of a1 got an empty
\* list and left the earlier January file, and the February job wrote
\* 2024-02.jsons.
C23_Witness ==
    /\ tlOld = TlPreviousDir
    /\ <<Job("account_tx", TlPreviousAccount, Months(TlPeriod)[1]), <<>>>> \in tlRan
    /\ \E e \in tlRan :
          /\ e[1] = Job("account_tx", TlPreviousAccount, Months(TlPeriod)[2])
          /\ e[2] # <<>>
    /\ tlFiles[<<"accounts", <<"a1">>, "2024-01.jsons">>] = <<<<"a1", "t0">>>>
    /\ tlFiles[<<"accounts", <<"a1">>, "2024-02.jsons">>]
          = <<<<"a1", "t1">>, <<"a1", "t2">>>>

\* The <<path, items>> a finished job or sync_* wrote.
WritesOf(e) ==
    CASE e[1].kind = "sync_accounts" ->
            {<<<<"accounts", AccountDirName(e[2][i]), "account.jsons">>,
               <<e[2][i]>>>> : i \in DOMAIN e[2]}
      [] e[1].kind = "sync_cards" ->
            {<<<<"cards.jsons">>, e[2]>>}
            \cup {<<<<"cards", <<e[2][i].account_id>>, "account.jsons">>,
                    <<e[2][i]>>>> : i \in DOMAIN e[2]}
      [] OTHER ->
            IF Writes(e[1], e[2])
            THEN {<<PathOf(e[1]), Payload(e[1], e[2])>>}
            ELSE {}

\* The paths written in this run.
WrittenPaths == UNION {{w[1] : w \in WritesOf(e)} : e \in tlRan}

\* C24 as stated: after a successful run the directory holds nothing but
\* what this run wrote, so that it depends on this run's responses only.
C24_DiskStateFromThisRunOnly ==
    TlSuccessful => DOMAIN tlFiles \subseteq WrittenPaths

\* C24: after a successful run, every path this run wrote holds the items
\* one of this run's jobs made of its own response for that path; every
\* other file of the directory, a month file of an earlier run whose list is
\* now empty among them, is still there as the run found it.
C24_WrittenFromThisRunRestKept ==
    TlSuccessful =>
        /\ DOMAIN tlFiles = DOMAIN tlOld \cup WrittenPaths
        /\ \A q \in DOMAIN tlFiles :
            IF q \in WrittenPaths
            THEN \E e \in tlRan : \E w \in WritesOf(e) :
                    w[1] = q /\ tlFiles[q] = w[2]
            ELSE tlFiles[q] = tlOld[q]

\* A successful second run for a1 whose January list is empty and whose
\* February list is not: 2024-01.jsons is the earlier run's, balance.jsons
\* is replaced.
C24_Witness ==
    /\ TlSuccessful
    /\ tlOld = TlPreviousDir
    /\ <<"accounts", <<"a1">>, "2024-01.jsons">> \notin WrittenPaths
    /\ <<"accounts", <<"a1">>, "2024-02.jsons">> \in WrittenPaths
    /\ tlFiles[<<"accounts", <<"a1">>, "2024-01.jsons">>] = <<<<"a1", "t0">>>>
    /\ tlFiles[<<"accounts", <<"a1">>, "balance.jsons">>] = <<<<"a1", "balance">>>>

\* C25: no two jobs of a run write to the same path.
C25_NoTwoJobsWriteSamePath ==
    \A e1 \in tlRan : \A e2 \in tlRan :
        e1[1] # e2[1] =>
            {w[1] : w \in WritesOf(e1)} \cap {w[1] : w \in WritesOf(e2)} = {}

\* C26: once account_direct_debits has returned Ok for an account, the
\* account's direct-debits file holds its payload.
C26_DirectDebitsOwnFile ==
    \A e \in tlRan :
        e[1].kind = "account_direct_debits" =>
            /\ <<"accounts", AccountDirName(e[1].account), "direct-debits.jsons">>
                  \in DOMAIN tlFiles
            /\ tlFiles[<<"accounts", AccountDirName(e[1].account),
                         "direct-debits.jsons">>] = e[2]

(***************************************************************************)
(* Properties of the connect command and of the gocardless client.         *)
(***************************************************************************)
\* A callback with the expected ref has been answered.
Matched == \E i \in DOMAIN cnLog : cnLog[i][1] = expected_requisition_id

CallbacksAnswered ==
    /\ \A i \in DOMAIN cnLog :
        /\ (cnLog[i][1] \in Uuids /\ cnLog[i][1] # expected_requisition_id)
              => cnLog[i][2] = 404
        /\ cnLog[i][1] = expected_requisition_id => cnLog[i][2] = 200
    /\ cnx <=> Matched
    /\ (cnPc \in {"final", "done", "failed"} /\ expected_requisition_id # "none")
          => Matched
    /\ (cnPc = "serving" /\ ~Matched) => ~cnx

C29_ConnectPersistsRequisition ==
    (cnPc = "done" /\ cnResult = "ok")
        => cnStateFile = <<expected_requisition_id>>

\* A 4xx response has been dealt with.
ClientErrorReturned == hcPc = "done" /\ IsClientError(hcResponse.status)

\* C30 as stated: for a 4xx response one request is sent and an error is
\* returned: the structured one with summary, detail and status_code when
\* the body is JSON, else one with the status and the text of the body.
C30_ClientErrorByBody ==
    ClientErrorReturned =>
        /\ hcSent = 1
        /\ hcResult.kind # "ok"
        /\ IF hcResponse.body \in {"error_object", "value_object", "json_array"}
           THEN hcResult.kind = "error_response"
           ELSE /\ hcResult.kind = "unrecognised"
                /\ hcResult.status = hcResponse.status
                /\ hcResult.content = hcResponse.body

\* C30: for a 4xx response one request is sent and an error is returned,
\* never a value: with Content-Type exactly application/json the structured
\* error with the body's summary, detail and status_code, or a decode error
\* when the body is no JSON object; with any other Content-Type an error
\* with the status and the text of the body; with no Content-Type the
\* status error.
C30_ClientErrorByContentType ==
    ClientErrorReturned =>
        /\ hcSent = 1
        /\ hcResult.kind # "ok"
        /\ hcResponse.content_type = <<"application/json">> =>
            IF hcResponse.body \in {"error_object", "value_object"}
            THEN /\ hcResult.kind = "error_response"
                 /\ hcResponse.body = "error_object" =>
                       /\ hcResult.summary = "Invalid token"
                       /\ hcResult.detail = "Token is invalid"
                       /\ hcResult.status_code = 401
            ELSE hcResult.kind = "decode"
        /\ hcResponse.content_type \notin {<<>>, <<"application/json">>} =>
            /\ hcResult.kind = "unrecognised"
            /\ hcResult.status = hcResponse.status
            /\ hcResult.content = hcResponse.body
        /\ hcResponse.content_type = <<>> =>
            /\ hcResult.kind = "status"
            /\ hcResult.status = hcResponse.status

\* A 401 with the API's error object, and post.
C30_Witness ==
    /\ hcPc = "done"
    /\ hcMethod = "post"
    /\ hcSent = 1
    /\ hcResponse = [status |-> 401, content_type |-> <<"application/json">>,
                     body |-> "error_object"]
    /\ hcResult.kind = "error_response"

\* A call has returned an error for a 5xx response or a transport failure.
ServerOrTransportErrorReturned ==
    /\ hcPc = "done"
    /\ \/ hcResult.kind = "transport"
       \/ hcResult.kind = "status" /\ IsServerError(hcResult.status)

\* C31: a 5xx response or a transport failure is not surfaced on the first
\* attempt: when get or post returns such an error the request has been sent
\* more than once.
C31_ServerErrorRetried ==
    ServerOrTransportErrorReturned => hcSent > 1

\* C36: run never finds both arms of its select disabled, whatever the
\* concurrency given to JobPool::new, 0 included.
C36_SomeSelectArmEnabled ==
    pcRun # "panicked"

\* C39: the start date of the range handed to list_account, after the
\* rounding up to a month start, is not later than the end date.
C39_RangeNotInverted ==
    rPc = "scan" => start_date <= end_date

\* The jobs run has pulled from the channel and spawned on its JoinSet, the
\* job bodies still running, and the jobs waiting in the channel.
Started ==
    {j \in JobIds : status[j] \in {"running", "done_ok", "done_err",
                                   "reaped_ok", "reaped_err", "aborted"}}
Unfinished == {j \in JobIds : status[j] = "running"}
Queued == {queue[i] : i \in DOMAIN queue}

\* C37: no job is started twice (each start is the start of another job),
\* a job that was sent and not yet started is in the channel exactly once
\* whichever arm the select took, at the top of the loop available permits
\* plus unfinished job bodies is `concurrency`, and when run returns Ok every
\* job submitted has been started and reaped.
C37_StartedOnceAndPermitsConserved ==
    /\ stats.jobs_started = Cardinality(Started)
    /\ \A i, k \in DOMAIN queue : queue[i] = queue[k] => i = k
    /\ \A j \in JobIds : status[j] = "queued" <=> j \in Queued
    /\ pcRun = "loop" => permits + Cardinality(Unfinished) = concurrency
    /\ pcRun = "ok" =>
          /\ \A j \in 1..nJobs : status[j] = "reaped_ok"
          /\ stats.jobs_started = nJobs
          /\ permits = concurrency

\* In the select the pending next_job future holds a permit and waits for
\* a job that is in the channel, while a finished task makes the reap arm
\* ready: taking the reap arm drops that future.
C37_Witness ==
    /\ pcRun = "select"
    /\ njPermit
    /\ queue # <<>>
    /\ \E j \in tasks : status[j] = "done_ok"

\* C40 as stated: the counters are ordered at every moment and equal when
\* run returns Ok.
C40_StatsOrdered ==
    /\ stats.jobs_completed <= stats.jobs_started
    /\ stats.jobs_started <= stats.jobs_submitted
    /\ pcRun = "ok" =>
          /\ stats.jobs_completed = stats.jobs_started
          /\ stats.jobs_started = stats.jobs_submitted

\* C40: jobs_completed never exceeds jobs_started, and jobs_started never
\* exceeds jobs_submitted by more than the number of spawn calls that have
\* sent their job and not yet counted it; when run returns Ok no such call
\* is left and the three counters are equal.
C40_StatsOrderedUpToUncountedSpawns ==
    /\ stats.jobs_completed <= stats.jobs_started
    /\ stats.jobs_started <= stats.jobs_submitted + Cardinality(countPending)
    /\ pcRun = "ok" =>
          /\ countPending = {}
          /\ stats.jobs_completed = stats.jobs_started
          /\ stats.jobs_started = stats.jobs_submitted

\* A running job has sent a child that run has started, reaped and counted
\* as completed before the job's spawn call counted it as submitted.
C40_Witness ==
    /\ stats.jobs_completed > stats.jobs_submitted
    /\ \E a \in JobIds : a \in countPending /\ status[a] = "running"

\* The access_token() call of p ends in this step with the error of its
\* refresh request or of its write_auth_data.
RefreshFails(p) ==
    /\ pcCall[p] \in {"refreshing", "writing"}
    /\ pcCall'[p] = "done"
    /\ ret'[p].kind # "ok"

\* C38: a call whose refresh request or token write fails returns that
\* error, leaves the cache and the token file as they are and releases the
\* lock it held; the token it was refreshing is the stored one, and while it
\* held the lock nobody else touched the cache or the file, so they are as
\* they were when the call took the lock.
C38_FailedRefreshChangesNothing ==
    [][\A p \in Callers :
          /\ RefreshFails(p) =>
                /\ ret'[p].kind \in {"err_refresh", "err_write"}
                /\ lockHolder = p
                /\ lockHolder' = 0
                /\ tokenFile' = tokenFile
                /\ cached_auth_data' = cached_auth_data
          /\ pcCall[p] = "refreshing" => data[p] = tokenFile
          /\ (lockHolder = p /\ pcCall'[p] # "done") =>
                /\ tokenFile' = tokenFile
                /\ cached_auth_data' = cached_auth_data
      ]_vars

\* One call failed in its refresh or its write, and a later call is
\* refreshing the very token that is still stored.
C38_Witness ==
    \E p, q \in Callers :
        /\ ret[p].kind \in {"err_refresh", "err_write"}
        /\ pcCall[q] = "refreshing"
        /\ tokenFile # <<>>
        /\ data[q] = tokenFile
        /\ {p, q} \notin overlapped

\* The grant of the example: seconds count from 2024-01-01T00:00:00Z.
ExampleGrant == FromTokenPair(0, "a1", 3600, "r1", 2592000)

SuccessReturned ==
    /\ hcPc = "done"
    /\ 200 <= hcResponse.status
    /\ hcResponse.status <= 299

\* What get or post returns for a 2xx response without rate-limit headers.
DecodedResult(resp) ==
    IF JsonResponse(resp.body) # <<>>
    THEN [kind |-> "ok", data |-> JsonResponse(resp.body)[1]]
    ELSE [kind |-> "decode"]

\* Every rate-limit header is absent or an integer, a reset one that can be
\* added to the start of the request.
WellFormedHeaders(hdrs) ==
    \A i \in DOMAIN hdrs :
        \/ hdrs[i] = <<>>
        \/ /\ ParsesAsI64(hdrs[i])
           /\ (i \in {GeneralHeaders[3], AccountHeaders[3]}) => InDurationRange(hdrs[i])

\* Header i is no integer and every header read before it is a well-formed
\* integer, so log_rate_limits gets as far as header i.
ReadAndUnparseable(hdrs, i) ==
    /\ hdrs[i] # <<>>
    /\ ~ParsesAsI64(hdrs[i])
    /\ \A k \in 1..(i - 1) :
          /\ ParsesAsI64(hdrs[k])
          /\ (k \in {GeneralHeaders[3], AccountHeaders[3]}) => InDurationRange(hdrs[k])

RootJobIds == {j \in JobIds : j <= Len(RootJobs)}

\* The root handle is gone before run is awaited, only sync_accounts and
\* sync_cards jobs own a clone, for as long as they have not finished, and no
\* sender is left once the last root job has finished.
SyHandlesOwnedByRootJobs ==
    /\ pcRun # "new" => ~rootHandle
    /\ \A j \in JobIds :
        jobHandle[j] <=> (TakesHandle(KindOf(j)) /\ status[j] \in {"queued", "running"})
    /\ (/\ ~rootHandle
        /\ \A j \in RootJobIds : status[j] \notin {"queued", "running"})
       => Senders = 0

\* With no scrape class a finished run has returned Ok and started no job.
SyNoClassRunsNothing ==
    (RootJobs = <<>> /\ pcRun \in {"ok", "err", "panicked"})
    => (pcRun = "ok" /\ stats.jobs_started = 0)

\* C34: in a sync run the root handle is dropped before run is awaited, only
\* the sync_accounts and sync_cards jobs own clones of it (dropped when they
\* finish) and their children own none, so the channel closes when the last
\* root job has finished; with no scrape class selected run returns Ok
\* without starting any job.
C34_SyncRunHandles == SyHandlesOwnedByRootJobs /\ SyNoClassRunsNothing

(***************************************************************************)
(* C35: the code-grant listener shuts down only after a stored exchange.   *)
(***************************************************************************)
LsStored == {lsStores[i] : i \in DOMAIN lsStores}

LsFailed == {h \in Redirects :
                lsHandler[h] \in {"rejected", "exchange_failed", "store_failed"}}

====
